---- MODULE Spec2Model ----
(***************************************************************************)
(* Model of the state-reconciliation and tool-orchestration engine of the  *)
(* Stateful AI Agent and AI State Handler nodes                            *)
(* (nodes/StatefulAIAgent/StatefulAIAgent.node.ts,                         *)
(*  nodes/AIStateHandler/AIStateHandler.node.ts).                          *)
(*                                                                         *)
(* JSON values are tagged records.  An object keeps its keys in insertion  *)
(* order (ks) beside the key -> value map (f), because JSON.stringify and  *)
(* Object.keys/Object.entries follow insertion order.                      *)
(***************************************************************************)
EXTENDS Naturals, Sequences, FiniteSets, TLC

VARIABLES
    mS, mC, mPrev, mOut, mOut2, mPhase,        \* mergeStateWithModel applied to drawn inputs
    mChangedAB, mChangedBA,                    \* change detection between two drawn snapshots
    cfg,                                       \* the interaction's parameters and connections
    store,                                     \* the session's record in the state store
    pc,                                        \* the orchestrator's position
    prevState, state, stateChangedProps,       \* execute()'s locals of the same names
    toolsToInvoke, toolResults, invokedToolNames,
    toolsRequested,                            \* tools_to_invoke as the model proposed it
    toolCalls,                                 \* the connected tools whose invoke was called, in order
    stateFieldsWithDependencies,
    conversationHistoryValue, historyAliased,
    response,
    error,                                     \* the exception that left execute(), if any
    lastRound,                                 \* what the latest reconciliation round saw and did
    trace,                                     \* external calls made so far, in order
    itemIndex, returnData, continueOnFail,     \* the loop over the input items and its output
    other,                                     \* the locals of a second execution on the session
    agentIterations                            \* model calls of the agent executor's loop

mvars == <<mS, mC, mPrev, mOut, mOut2, mPhase, mChangedAB, mChangedBA>>
ovars == <<cfg, store, pc, prevState, state, stateChangedProps, toolsToInvoke,
           toolResults, invokedToolNames, toolsRequested, toolCalls,
           stateFieldsWithDependencies, conversationHistoryValue, historyAliased, response, error, lastRound, trace>>
bvars == <<itemIndex, returnData, continueOnFail, other, agentIterations>>
vars == <<mvars, ovars, bvars>>

----------------------------------------------------------------------------
(* Bounds of the model *)

MaxReq == 2          \* longest tools_to_invoke list the model proposes
MaxHist == 1         \* most conversation-history entries already in the store
MaxItems == 2        \* input items of one execution

\* new AgentExecutor({..., maxIterations: 10}): the executor's loop calls the
\* model once in every iteration and, in every iteration but the one that
\* gives the answer, runs the tools the model asked for
maxIterations == 10

----------------------------------------------------------------------------
(* JSON values *)

Undef == [t |-> "undef"]                       \* JavaScript undefined
Null == [t |-> "null"]
Fn == [t |-> "fn"]                             \* an inherited Object.prototype member
Str(s) == [t |-> "str", s |-> s]
Arr(items) == [t |-> "arr", items |-> items]
Obj(ks, f) == [t |-> "obj", ks |-> ks, f |-> f]
EmptyObj == Obj(<<>>, [k \in {} |-> Null])

U == Str("u")
V == Str("v")
W == Str("w")
EmptyStr == Str("")

IsObj(v) == v.t = "obj"
\* typeof v === 'object' && v !== null && !Array.isArray(v)
IsPlainObject(v) == v.t = "obj"
\* typeof v === 'object' (null and arrays included)
TypeofObject(v) == v.t \in {"obj", "arr", "null"}
\* JavaScript truthiness of a JSON value
Truthy(v) == ~(v.t \in {"undef", "null"}) /\ v # EmptyStr

\* Names every object inherits from Object.prototype; one stands for all of them.
ProtoKeys == {"constructor"}

\* Object.keys(o)
Keys(o) == o.ks
KeySet(o) == DOMAIN o.f
\* Object.prototype.hasOwnProperty
HasOwn(o, k) == IsObj(o) /\ k \in DOMAIN o.f
\* key in o: own keys and inherited ones
In(k, o) == HasOwn(o, k) \/ (o.t \in {"obj", "arr"} /\ k \in ProtoKeys)
\* o[k]
Get(o, k) ==
    IF HasOwn(o, k) THEN o.f[k]
    ELSE IF o.t \in {"obj", "arr", "str"} /\ k \in ProtoKeys THEN Fn
    ELSE Undef
\* o[k] = v
Put(o, k, v) ==
    IF k \in DOMAIN o.f
    THEN Obj(o.ks, [o.f EXCEPT ![k] = v])
    ELSE Obj(Append(o.ks, k), [j \in (DOMAIN o.f) \cup {k} |-> IF j = k THEN v ELSE o.f[j]])

\* Object literals: the same value under every key; two keys with a value each
ObjAll(ks, v) == Obj(ks, [k \in {ks[i] : i \in DOMAIN ks} |-> v])
Obj2(k1, v1, k2, v2) == Obj(<<k1, k2>>, [k \in {k1, k2} |-> IF k = k1 THEN v1 ELSE v2])

\* JSON.stringify(v): undefined for undefined and for functions, else the text of
\* v, which determines v and is determined by it (key order included).
Stringify(v) == IF v.t \in {"undef", "fn"} THEN Undef ELSE [t |-> "text", of |-> v]

SeqToSet(s) == {s[i] : i \in DOMAIN s}
Includes(s, x) == \E i \in DOMAIN s : s[i] = x
\* arr.includes(x) ? arr : arr.push(x)
PushUnique(s, x) == IF Includes(s, x) THEN s ELSE Append(s, x)

----------------------------------------------------------------------------
(* Schema Normalizer and State Merger *)

\* key.split('.'): the one dotted key of the model splits in two
DottedKey == "a.n"
Split(key) == IF key = DottedKey THEN <<"a", "n">> ELSE <<key>>

\* A path string is modelled by its dot-separated parts, so that a.n read as
\* the nested path a -> n and as the single key "a.n" are the same path.
RECURSIVE extractStateModelStructure(_, _)
RECURSIVE ExtractEntries(_, _, _)
ExtractEntries(stateModel, ks, prefix) ==
    IF ks = <<>> THEN <<>>
    ELSE LET key == Head(ks)
             value == stateModel.f[key]
             fullPath == prefix \o Split(key)
         IN (IF IsPlainObject(value)
             THEN extractStateModelStructure(value, fullPath)
             ELSE << [path |-> fullPath,
                      description |-> IF value.t = "str" THEN value ELSE Stringify(value)] >>)
            \o ExtractEntries(stateModel, Tail(ks), prefix)

extractStateModelStructure(stateModel, prefix) ==
    ExtractEntries(stateModel, Keys(stateModel), prefix)

\* As getNestedValue, but stopping after the first part of the path
getNestedValueShallow(obj, parts) ==
    IF parts = <<>> THEN obj
    ELSE IF obj.t \in {"null", "undef"} \/ ~TypeofObject(obj) THEN Undef
    ELSE Get(obj, Head(parts))

RECURSIVE getNestedValue(_, _)
getNestedValue(obj, parts) ==
    IF parts = <<>> THEN obj
    ELSE IF obj.t \in {"null", "undef"} \/ ~TypeofObject(obj) THEN Undef
    ELSE getNestedValue(Get(obj, Head(parts)), Tail(parts))

RECURSIVE setNestedValue(_, _, _)
setNestedValue(obj, parts, value) ==
    IF Len(parts) = 1 THEN Put(obj, parts[1], value)
    ELSE LET part == Head(parts)
             cur == Get(obj, part)
             child == IF ~In(part, obj) \/ ~TypeofObject(cur) \/ cur = Null \/ cur.t = "arr"
                      THEN EmptyObj
                      ELSE cur
         IN Put(obj, part, setNestedValue(child, Tail(parts), value))

RECURSIVE initializeStructure(_, _, _)
initializeStructure(model, ks, target) ==
    IF ks = <<>> THEN target
    ELSE LET key == Head(ks)
             value == model.f[key]
             filled == IF IsPlainObject(value)
                       THEN Put(target, key, initializeStructure(value, Keys(value), EmptyObj))
                       ELSE Put(target, key, Null)
         IN initializeStructure(model, Tail(ks), filled)

RECURSIVE MergeFields(_, _, _, _)
MergeFields(modelFields, mergedState, updatedState, currentState) ==
    IF modelFields = <<>> THEN mergedState
    ELSE LET field == Head(modelFields)
             value == getNestedValue(updatedState, field.path)
             currentValue == getNestedValue(currentState, field.path)
             next == IF value # Undef /\ value # Null
                     THEN setNestedValue(mergedState, field.path, value)
                     ELSE IF currentValue # Undef
                          THEN setNestedValue(mergedState, field.path, currentValue)
                          ELSE mergedState
         IN MergeFields(Tail(modelFields), next, updatedState, currentState)

\* As mergeStateWithModel, but filling the candidate itself instead of a clean
\* structure
mergeIntoCandidate(updatedState, stateModel, currentState) ==
    MergeFields(extractStateModelStructure(stateModel, <<>>),
                initializeStructure(stateModel, Keys(stateModel),
                                    IF IsObj(updatedState) THEN updatedState ELSE EmptyObj),
                updatedState, currentState)

mergeStateWithModel(updatedState, stateModel, currentState) ==
    MergeFields(extractStateModelStructure(stateModel, <<>>),
                initializeStructure(stateModel, Keys(stateModel), EmptyObj),
                updatedState, currentState)

----------------------------------------------------------------------------
(* Inputs of mergeStateWithModel and of the change detector *)

D == Str("d")                                   \* a field description
NoArr == Arr(<<>>)

\* The optional value of a key: Undef stands for "key absent".
ObjOf(ks, f) == LET present == SelectSeq(ks, LAMBDA k : f[k] # Undef)
                IN Obj(present, [k \in SeqToSet(present) |-> f[k]])

\* State models: flat, nested, with an array as a description, with a dotted
\* key, empty, and with an empty nested object.
MergeSchemas ==
    { ObjAll(<<"a">>, D),
      ObjAll(<<"a", "b">>, D),
      Obj2("a", ObjAll(<<"n">>, D), "b", D),
      Obj2("a", NoArr, "b", D),
      ObjAll(<<DottedKey>>, D),
      EmptyObj,
      ObjAll(<<"a">>, EmptyObj) }

\* Values one level down: objects over the keys n (a schema key) and x (not one)
InnerObjects ==
    { ObjOf(<<"n", "x">>, f) : f \in [{"n", "x"} -> {Undef, Null, U}] }
MergeValuesA == {Undef, Null, U, NoArr} \cup InnerObjects
MergeValuesB == {Undef, Null, V}
MergeValuesX == {Undef, U}

\* Candidate and prior states: any object over a, b and the non-schema key x,
\* or no object at all (the model's JSON text may parse to anything).
MergeObjects ==
    { ObjOf(<<"a", "b", "x">>, [k \in {"a", "b", "x"} |->
                                  IF k = "a" THEN va ELSE IF k = "b" THEN vb ELSE vx]) :
        va \in MergeValuesA, vb \in MergeValuesB, vx \in MergeValuesX }
\* Objects that spell the dotted key literally, beside or without a nested a.n
DottedObjects ==
    { ObjOf(<<DottedKey, "a">>, [k \in {DottedKey, "a"} |-> IF k = DottedKey THEN vd ELSE va]) :
        vd \in {Null, U, V}, va \in {Undef, ObjAll(<<"n">>, W)} }
MergeCandidates == MergeObjects \cup DottedObjects \cup {Null, U}
MergePriors == { o \in MergeObjects : ~HasOwn(o, "x") } \cup DottedObjects

----------------------------------------------------------------------------
(* Text: the model's replies, tool results and the store's payload *)

\* A JavaScript string is either plain (Str: its content is no JSON text) or the
\* JSON serialisation of a value (Stringify's text).
JsonText(v) == Stringify(v)
Garbage == Str("not json")

\* JSON.parse(text): the value, or Undef for a SyntaxError (no JSON text parses
\* to undefined)
JsonParse(text) == IF text.t = "text" THEN text.of ELSE Undef

\* A reply of the language model: a body, possibly after an opening fence line
\* (three backquotes with an optional language tag) and before a closing fence.
FenceBare == "fence"
FenceJson == "fence json"
FenceOther == "fence js"
NoFence == ""
Reply(open, body, close) == [open |-> open, body |-> body, close |-> close]
\* cleanJsonResponse: only a reply that starts with a fence is stripped, of the
\* opening fence (bare or tagged json) and of the closing fence; another
\* language tag, or a closing fence without an opening one, stays in the text.
cleanJsonResponse(reply) ==
    IF reply.open \in {FenceBare, FenceJson} THEN reply.body
    ELSE IF reply.open = NoFence /\ reply.close = NoFence THEN reply.body
    ELSE Garbage

\* parseToolResult: a non-string is returned as is; a string is parsed, and kept
\* raw when it is no JSON
parseToolResult(toolResult) ==
    IF toolResult.t \notin {"str", "text"} THEN toolResult
    ELSE IF JsonParse(toolResult) # Undef THEN JsonParse(toolResult)
    ELSE toolResult

\* JSON.parse(JSON.stringify(v)) for an object: keys holding undefined or a
\* function are dropped
JsonRoundTrip(o) ==
    ObjOf(o.ks, [k \in DOMAIN o.f |-> IF o.f[k].t \in {"undef", "fn"} THEN Undef ELSE o.f[k]])

----------------------------------------------------------------------------
(* Parameters, connections and the store's content before the interaction *)

Message == Str("m")                             \* userMessage / message
HistoryEntry(role, message) ==
    Obj2("role", Str(role), "message", message)

\* State models of the interactions: two fields, and none at all
Fields == <<"a", "task_steps">>
StateModels == { ObjAll(Fields, D), EmptyObj }
\* A state model that declares a field under the name the handler reserves
ReservedModel == ObjAll(<<"a", "system_last_message">>, D)

\* Connected tools, by name, in connection order
ToolCatalog == <<"Lookup", "GetSteps">>
\* Two tools whose names differ in letter case only
TwinCatalog == <<"lookup", "Lookup">>
NoTools == <<>>
Catalogs == {NoTools, ToolCatalog, TwinCatalog}

AgentConfigs ==
    { [node |-> "agent", role |-> "user", stateModel |-> sm, conversationHistory |-> h,
       singlePromptStateTracking |-> sp, agentTools |-> tl] :
        sm \in StateModels \cup {Null}, h \in BOOLEAN, sp \in BOOLEAN,
        tl \in Catalogs }
HandlerConfigs ==
    { [node |-> "handler", role |-> r, stateModel |-> sm, conversationHistory |-> FALSE,
       singlePromptStateTracking |-> TRUE, agentTools |-> tl] :
        r \in {"user", "system"}, sm \in StateModels \cup {ReservedModel}, tl \in Catalogs }
\* singlePromptStateTracking is read only when a state model is configured.
\* The twin tools are connected to nodes that track the fields in one prompt,
\* the reserved name is declared on a handler that takes system messages.
Configs ==
    { c \in AgentConfigs \cup HandlerConfigs :
        /\ c.stateModel = Null => c.singlePromptStateTracking
        /\ c.stateModel = ReservedModel => c.role = "system" /\ c.agentTools = NoTools
        /\ c.agentTools = TwinCatalog =>
              /\ c.stateModel = ObjAll(Fields, D) /\ c.role = "user"
              /\ c.singlePromptStateTracking /\ ~c.conversationHistory }

\* What earlier interactions of the session left in the store: nothing, the
\* fields, a conversation history, or fields, history and system_last_message
PastHistories ==
    { Arr([i \in 1..n |-> HistoryEntry("user", Str("old"))]) : n \in 1..MaxHist }
StoredFields == [k \in SeqToSet(Fields) |-> IF k = "a" THEN U ELSE Null]
StoreOf(sf, ch, slm) ==
    ObjOf(Fields \o <<"conversation_history", "system_last_message">>,
          [k \in SeqToSet(Fields) \cup {"conversation_history", "system_last_message"} |->
              IF k \in SeqToSet(Fields) THEN sf[k]
              ELSE IF k = "conversation_history" THEN ch ELSE slm])
NoFields == [k \in SeqToSet(Fields) |-> Undef]
Stores ==
    { EmptyObj, StoreOf(StoredFields, Undef, Undef) }
    \cup { StoreOf(NoFields, ch, Undef) : ch \in PastHistories }
    \cup { StoreOf(StoredFields, ch, Message) : ch \in PastHistories }

HasStateModel == cfg.stateModel # Null
useAgent == Len(cfg.agentTools) > 0

----------------------------------------------------------------------------
(* Change Detector and first-round state extraction *)

\* prevStateModelOnly of the agent: every state-model key, null when the store
\* has no such key
RECURSIVE AgentPrevModelOnly(_, _, _)
AgentPrevModelOnly(ks, prev, acc) ==
    IF ks = <<>> THEN acc
    ELSE AgentPrevModelOnly(Tail(ks), prev,
            Put(acc, Head(ks), IF In(Head(ks), prev) THEN Get(prev, Head(ks)) ELSE Null))

\* prevStateModelOnly of the handler: only the state-model keys the store has
RECURSIVE HandlerPrevModelOnly(_, _, _)
HandlerPrevModelOnly(ks, prev, acc) ==
    IF ks = <<>> THEN acc
    ELSE HandlerPrevModelOnly(Tail(ks), prev,
            IF In(Head(ks), prev) THEN Put(acc, Head(ks), Get(prev, Head(ks))) ELSE acc)

prevStateModelOnly ==
    IF cfg.node = "agent"
    THEN (IF HasStateModel THEN AgentPrevModelOnly(Keys(cfg.stateModel), prevState, EmptyObj)
          ELSE EmptyObj)
    ELSE HandlerPrevModelOnly(Keys(cfg.stateModel), prevState, EmptyObj)

\* As isFirstRun, but judging by an empty store
isFirstRunOfEmptyStore == HasStateModel /\ Keys(prevState) = <<>>

\* isFirstRun = !Object.keys(stateModel).some(key => key in prevState)
isFirstRun == HasStateModel /\ ~\E i \in DOMAIN Keys(cfg.stateModel) : In(Keys(cfg.stateModel)[i], prevState)

\* As ChangedKeys, but reporting only the keys the previous snapshot has
ChangedKeysOfPrevious(stateModel, prev, new) ==
    SelectSeq(Keys(stateModel), LAMBDA key :
        /\ Get(prev, key) # Undef
        /\ Stringify(Get(prev, key)) # Stringify(Get(new, key)))

\* Object.keys(stateModel).filter(key => JSON.stringify(prev[key]) !== JSON.stringify(new[key]))
ChangedKeys(stateModel, prev, new) ==
    SelectSeq(Keys(stateModel), LAMBDA key : Stringify(Get(prev, key)) # Stringify(Get(new, key)))

\* for (key of Object.keys(stateModel)) { if (!(key in newState)) newState[key] = null; ... }
RECURSIVE FillMissing(_, _)
FillMissing(ks, newState) ==
    IF ks = <<>> THEN newState
    ELSE FillMissing(Tail(ks),
                     IF In(Head(ks), newState) THEN newState ELSE Put(newState, Head(ks), Null))

\* ... state[key] = newState[key]
RECURSIVE CopyKeys(_, _, _)
CopyKeys(ks, from, into) ==
    IF ks = <<>> THEN into
    ELSE CopyKeys(Tail(ks), from, Put(into, Head(ks), Get(from, Head(ks))))

\* (key in v) and v.prop throw a TypeError on these
InThrows(v) == v.t \notin {"obj", "arr"}
PropThrows(v) == v.t \in {"null", "undef"}

\* As validateAndExtractState, but without the first-run rule
validateAndExtractStateUnforced(parsedResult, stateModel, st, prevModelOnly, firstRun) ==
    IF PropThrows(parsedResult) THEN [ok |-> FALSE]
    ELSE LET given == Get(parsedResult, "state")
             newState == IF Truthy(given) THEN given ELSE EmptyObj
         IN IF Keys(stateModel) # <<>> /\ InThrows(newState) THEN [ok |-> FALSE]
            ELSE LET st2 == CopyKeys(Keys(stateModel), FillMissing(Keys(stateModel), newState), st)
                 IN [ok |-> TRUE, state |-> st2,
                     changed |-> ChangedKeys(stateModel, prevModelOnly, st2)]

\* validateAndExtractState: the new working state and the changeset, or a throw
validateAndExtractState(parsedResult, stateModel, st, prevModelOnly, firstRun) ==
    IF PropThrows(parsedResult) THEN [ok |-> FALSE]
    ELSE LET given == Get(parsedResult, "state")
             newState == IF Truthy(given) THEN given ELSE EmptyObj
         IN IF Keys(stateModel) # <<>> /\ InThrows(newState) THEN [ok |-> FALSE]
            ELSE LET filled == FillMissing(Keys(stateModel), newState)
                     st2 == CopyKeys(Keys(stateModel), filled, st)
                     changedProps == ChangedKeys(stateModel, prevModelOnly, st2)
                 IN [ok |-> TRUE,
                     state |-> st2,
                     changed |-> IF firstRun /\ changedProps = <<>>
                                 THEN Keys(stateModel)
                                 ELSE changedProps]

----------------------------------------------------------------------------
(* Tool Dispatcher *)

\* String.prototype.toLowerCase on the names and reasons of the model
ToLower(str) ==
    CASE str = "Lookup" -> "lookup"
      [] str = "GetSteps" -> "getsteps"
      [] str = "Missing" -> "missing"
      [] OTHER -> str
\* lower.includes('steps')
IncludesSteps(lower) == lower \in {"steps", "getsteps", "find the steps"}

\* agentTools.find(t => t.name === tool_name || t.name.toLowerCase() === tool_name.toLowerCase()):
\* the first connected tool that matches either way, or Undef
FindTool(catalog, tool_name) ==
    LET hits == SelectSeq(catalog, LAMBDA name :
                    Str(name) = tool_name \/ ToLower(name) = ToLower(tool_name.s))
    IN IF hits = <<>> THEN Undef ELSE Str(Head(hits))

\* The callback of find reads tool_name.toLowerCase() for the first connected
\* tool already: a TypeError when tool_name is no string
FindThrows(catalog, tool_name) == catalog # <<>> /\ tool_name.t # "str"

\* What one call of tool.invoke does: it returns a value or throws
Returned(value) == [threw |-> FALSE, value |-> value]
Threw(message) == [threw |-> TRUE, value |-> message]
ToolOutcomes == { Threw(Str("boom")), Returned(JsonText(U)), Returned(W) }

\* As ResultRecord, but filing what the tool threw as its result
ResultRecordAsResult(tool_name, state_field, kind, value) ==
    Obj(<<"tool_name", "state_field", "result">>,
        [k \in {"tool_name", "state_field", "result"} |->
            IF k = "tool_name" THEN tool_name ELSE IF k = "state_field" THEN state_field ELSE value])

\* toolResults.push({tool_name, state_field, result | error})
ResultRecord(tool_name, state_field, kind, value) ==
    Obj(<<"tool_name", "state_field", kind>>,
        [k \in {"tool_name", "state_field", kind} |->
            IF k = "tool_name" THEN tool_name ELSE IF k = "state_field" THEN state_field ELSE value])

\* reason?.toLowerCase() throws a TypeError on anything but a string, null and undefined
ReasonThrows(reason) == reason.t \notin {"str", "undef", "null"}

\* One iteration of the dispatch loop (the same in invokeTools and in the
\* handler's user role) for a request whose tool was found.
DispatchOne(toolInvocation, outcome, stateModel, st, changed, results, invoked) ==
    LET tool_name == Get(toolInvocation, "tool_name")
        reason == Get(toolInvocation, "reason")
        state_field == Get(toolInvocation, "state_field")
        errRecord == ResultRecord(tool_name, state_field, "error", outcome.value)
        okRecord == ResultRecord(tool_name, state_field, "result", outcome.value)
        nameHasSteps == IncludesSteps(ToLower(tool_name.s))
        heuristic == ~Truthy(state_field) /\
                     (nameHasSteps \/ (reason.t = "str" /\ IncludesSteps(ToLower(reason.s))))
        targetField == IF Truthy(state_field) THEN state_field
                       ELSE IF heuristic THEN Str("task_steps") ELSE state_field
        parsedResult == parseToolResult(outcome.value)
        writes == /\ Truthy(targetField)
                  /\ In(targetField.s, stateModel)
                  /\ Stringify(Get(st, targetField.s)) # Stringify(parsedResult)
    IN IF outcome.threw
       THEN [state |-> st, changed |-> changed, results |-> Append(results, errRecord),
             invoked |-> invoked]
       ELSE IF ~Truthy(state_field) /\ ~nameHasSteps /\ ReasonThrows(reason)
       THEN [state |-> st, changed |-> changed,
             results |-> results \o <<okRecord,
                            ResultRecord(tool_name, state_field, "error", Str("TypeError"))>>,
             invoked |-> invoked]
       ELSE [state |-> IF writes THEN Put(st, targetField.s, parsedResult) ELSE st,
             changed |-> IF writes THEN PushUnique(changed, targetField.s) ELSE changed,
             results |-> Append(results, okRecord),
             invoked |-> Append(invoked, tool_name)]

----------------------------------------------------------------------------
(* mergeStateWithModel and the change detector applied to drawn inputs *)

MergeIdle ==
    /\ mS = Undef /\ mC = Undef /\ mPrev = Undef
    /\ mOut = Undef /\ mOut2 = Undef /\ mPhase = "idle"
    /\ mChangedAB = <<>> /\ mChangedBA = <<>>

\* One input item, one execution
LoopIdle ==
    /\ itemIndex = 1 /\ returnData = <<>> /\ continueOnFail = FALSE /\ other = Undef
    /\ agentIterations = 0

\* The orchestrator at rest, while the pure functions are exercised on their own
OrchIdle ==
    /\ LoopIdle
    /\ cfg = Undef /\ store = Undef /\ pc = "idle"
    /\ prevState = Undef /\ state = Undef /\ stateChangedProps = <<>>
    /\ toolsToInvoke = <<>> /\ toolResults = <<>> /\ invokedToolNames = <<>>
    /\ toolsRequested = <<>> /\ toolCalls = <<>>
    /\ stateFieldsWithDependencies = {}
    /\ conversationHistoryValue = Undef /\ historyAliased = FALSE
    /\ response = Undef /\ error = Undef /\ lastRound = Undef /\ trace = <<>>

MergeInit ==
    /\ OrchIdle
    /\ mS \in MergeSchemas
    /\ mC \in MergeCandidates
    /\ mPrev \in MergePriors
    /\ mOut = Undef /\ mOut2 = Undef
    /\ mChangedAB = <<>> /\ mChangedBA = <<>>
    /\ mPhase = "input"

\* merged = mergeStateWithModel(C, S, prev)
ApplyMerge ==
    /\ mPhase = "input"
    /\ mOut' = mergeStateWithModel(mC, mS, mPrev)
    /\ mPhase' = "merged"
    /\ UNCHANGED <<mS, mC, mPrev, mOut2, mChangedAB, mChangedBA>>

\* mergeStateWithModel(merged, S, prev)
ApplyMergeAgain ==
    /\ mPhase = "merged"
    /\ mOut2' = mergeStateWithModel(mOut, mS, mPrev)
    /\ mPhase' = "remerged"
    /\ UNCHANGED <<mS, mC, mPrev, mOut, mChangedAB, mChangedBA>>

\* The change detector on two snapshots, each taken once as the previous one
DetectChanges ==
    /\ mPhase = "input" /\ IsObj(mC)
    /\ mChangedAB' = ChangedKeys(mS, mPrev, mC)
    /\ mChangedBA' = ChangedKeys(mS, mC, mPrev)
    /\ mPhase' = "compared"
    /\ UNCHANGED <<mS, mC, mPrev, mOut, mOut2>>

MergeNext ==
    \/ ApplyMerge /\ UNCHANGED <<ovars, bvars>>
    \/ ApplyMergeAgain /\ UNCHANGED <<ovars, bvars>>
    \/ DetectChanges /\ UNCHANGED <<ovars, bvars>>

MergeSpec == MergeInit /\ [][MergeNext]_vars

----------------------------------------------------------------------------
(* What the language model may answer *)

\* State objects the model may propose: each of a and task_steps given, null or
\* left out, and one with a key x that the state model does not have
CandidateStates ==
    { ObjOf(<<"a", "task_steps">>,
            [k \in {"a", "task_steps"} |-> IF k = "a" THEN va ELSE vt]) :
        va \in {Undef, Null, U, V}, vt \in {Undef, U} }
    \cup { Obj2("a", V, "x", U) }
\* The states that come together with tool requests
ToolBearingStates ==
    { EmptyObj,
      ObjAll(<<"a">>, U),
      Obj2("a", V, "task_steps", U) }

Request(tool_name, reason, state_field) ==
    ObjOf(<<"tool_name", "reason", "state_field">>,
          [k \in {"tool_name", "reason", "state_field"} |->
              IF k = "tool_name" THEN tool_name ELSE IF k = "reason" THEN reason ELSE state_field])
\* The usual request names a connected tool and a field of the state model
UsualRequest == Request(Str("Lookup"), Str("because"), Str("a"))
\* The others: another letter case, no field and a reason that mentions steps;
\* a tool that is not connected; a field outside the state model; a field
\* name that every object inherits; no tool name; no field and a reason that
\* is no string
OddRequests ==
    { Request(Str("lookup"), Str("find the steps"), Undef),
      Request(Str("Missing"), Str("because"), Str("a")),
      Request(Str("GetSteps"), Str("because"), Str("x")),
      Request(Str("Lookup"), Str("because"), Str("constructor")),
      Request(Undef, Str("because"), Str("a")),
      Request(Str("Lookup"), NoArr, Undef) }
ToolRequests == {UsualRequest} \cup OddRequests
\* tools_to_invoke lists of up to MaxReq requests, at most one of them odd
ToolLists ==
    UNION { { l \in [1..n -> ToolRequests] :
                Cardinality({i \in 1..n : l[i] # UsualRequest}) <= 1 } : n \in 1..MaxReq }

\* A state and a tool list proposed together: any of the states with usual
\* requests only, one of them with a list that has an odd request
ToolProposals ==
    { <<st, tl>> \in ToolBearingStates \X ToolLists :
        (\E i \in DOMAIN tl : tl[i] # UsualRequest) => st = ObjAll(<<"a">>, U) }

FirstResponse == Str("first answer")
PostToolResponse == Str("answer after tools")
FinalResponse == Str("final answer")

AnswerObject(st, tools, resp, deps) ==
    ObjOf(<<"state", "tools_to_invoke", "response", "fields_needing_post_analysis">>,
          [k \in {"state", "tools_to_invoke", "response", "fields_needing_post_analysis"} |->
              IF k = "state" THEN st
              ELSE IF k = "tools_to_invoke" THEN tools
              ELSE IF k = "response" THEN resp ELSE deps])
Bare(body) == Reply(NoFence, body, NoFence)

\* Replies that are no JSON, JSON null, a state that is no object, a tool list
\* that is no array, and one body in every framing
FencedProbe == JsonText(AnswerObject(ObjAll(<<"a">>, V), Undef, FirstResponse, Undef))
OddReplies ==
    { Bare(Garbage), Bare(JsonText(Null)),
      Bare(JsonText(AnswerObject(U, Undef, FirstResponse, Undef))),
      Bare(JsonText(AnswerObject(ObjAll(<<"a">>, V), U, Undef, Undef))),
      Reply(FenceJson, FencedProbe, FenceBare), Reply(FenceBare, FencedProbe, NoFence),
      Reply(FenceOther, FencedProbe, FenceBare), Reply(NoFence, FencedProbe, FenceBare) }

\* Answers to the agent's first call, without and with connected tools
AnswersWithoutTools ==
    { Bare(JsonText(AnswerObject(st, Undef, FirstResponse, Undef))) :
        st \in CandidateStates \cup {Undef} }
    \cup { Bare(JsonText(AnswerObject(ObjAll(<<"a">>, U), Undef, Undef, Undef))) }
    \cup OddReplies
AnswersWithTools ==
    { Bare(JsonText(AnswerObject(st, Arr(<<>>), Undef, Undef))) : st \in CandidateStates }
    \cup { Bare(JsonText(AnswerObject(p[1], Arr(p[2]), Undef, Undef))) : p \in ToolProposals }
    \cup OddReplies
\* Answers to the handler's user-role call
Dependencies == { Undef, Arr(<<Str("a"), Str("x")>>) }
\* fields_needing_post_analysis that names no field, but a name every object inherits
InheritedDependency == Arr(<<Str("constructor")>>)
HandlerUserAnswers ==
    { Bare(JsonText(AnswerObject(st, Undef, Undef, Undef))) : st \in CandidateStates \cup {Undef} }
    \cup { Bare(JsonText(AnswerObject(p[1], Arr(p[2]), Undef, deps))) :
             p \in ToolProposals, deps \in Dependencies }
    \cup { Bare(JsonText(AnswerObject(ObjAll(<<"a">>, U), Arr(<<UsualRequest>>), Undef,
                                      InheritedDependency))) }
    \cup OddReplies
\* Answers that are the state object itself (system role)
StateAnswers ==
    { Bare(JsonText(st)) : st \in CandidateStates \cup {Null} } \cup { Bare(Garbage) }
\* State objects the model may propose after the tools: nothing, a null, a new
\* value, the other field, and a key that the state model does not have
RefinedStates ==
    { EmptyObj, ObjAll(<<"a">>, Null), ObjAll(<<"a">>, V), ObjAll(<<"task_steps">>, U),
      Obj2("a", V, "x", U) }
\* Answers to the post-tool state call (agent in double-prompt mode, handler)
RefinedStateAnswers ==
    { Bare(JsonText(st)) : st \in RefinedStates \cup {Null, U} } \cup { Bare(Garbage) }
\* Answers to the agent's combined post-tool call
PostToolAnswers ==
    { Bare(JsonText(AnswerObject(st, Undef, PostToolResponse, Undef))) :
        st \in RefinedStates \cup {Undef} }
    \cup { Bare(JsonText(AnswerObject(ObjAll(<<"a">>, V), Undef, Undef, Undef))),
           Bare(JsonText(Null)), Bare(Garbage) }

----------------------------------------------------------------------------
(* The orchestrator: execute() of both nodes for one input item *)

\* Each action runs from the return of one awaited call (store, model, tool) to
\* the next awaited call, as the code does; pc names the call being awaited.
\* toolsToInvoke holds the requests the dispatch loop has not reached yet.

IsAgent == cfg.node = "agent"
IsHandler == cfg.node = "handler"
SinglePrompt == cfg.singlePromptStateTracking
\* As tracksState, but also tracking whenever tools are connected
tracksStateOrTools == IsHandler \/ HasStateModel \/ cfg.conversationHistory \/ useAgent

\* the store is read and written at all
tracksState == IsHandler \/ HasStateModel \/ cfg.conversationHistory
ModelKeys == IF HasStateModel THEN Keys(cfg.stateModel) ELSE <<>>

Init ==
    /\ MergeIdle /\ LoopIdle
    /\ cfg \in Configs
    /\ store \in Stores
    /\ pc = "start"
    /\ prevState = EmptyObj /\ state = EmptyObj /\ stateChangedProps = <<>>
    /\ toolsToInvoke = <<>> /\ toolResults = <<>> /\ invokedToolNames = <<>>
    /\ toolsRequested = <<>> /\ toolCalls = <<>>
    /\ stateFieldsWithDependencies = {}
    /\ conversationHistoryValue = Null /\ historyAliased = FALSE
    /\ response = EmptyStr /\ error = Undef /\ lastRound = Undef /\ trace = <<>>

\* What a reconciliation round saw: the model keys its answer left out and the
\* values known before it
Round(kind, cand, before) ==
    [kind |-> kind,
     omitted |-> {k \in SeqToSet(ModelKeys) : ~In(k, cand)},
     before |-> before]

\* The exceptions: what a failed call threw; and the catch blocks around the
\* required rounds, which rethrow with the message of what they caught
Failure(message) == [t |-> "error", text |-> "", message |-> message]
ParseFailure(message) == [t |-> "error", text |-> "Failed to parse", message |-> message]
SyntaxError == "SyntaxError"                    \* thrown by JSON.parse
TypeError == "TypeError"                        \* thrown by a read of null, by in on a non-object

\* An exception leaves execute(): the locals are gone, the store is as it was
Abort(tr, err) ==
    /\ pc' = "failed"
    /\ trace' = tr
    /\ error' = err
    /\ prevState' = EmptyObj /\ state' = EmptyObj /\ stateChangedProps' = <<>>
    /\ toolsToInvoke' = <<>> /\ toolResults' = <<>> /\ invokedToolNames' = <<>>
    /\ toolsRequested' = <<>>
    /\ stateFieldsWithDependencies' = {}
    /\ conversationHistoryValue' = Null /\ historyAliased' = FALSE
    /\ response' = EmptyStr /\ lastRound' = Undef
    /\ UNCHANGED <<cfg, store, toolCalls>>

\* The loop cannot look the next request's tool up: find throws
DispatchThrows(todo) ==
    todo # <<>> /\ FindThrows(cfg.agentTools, Get(Head(todo), "tool_name"))

\* The request names a connected tool: if (!tool) continue; does not skip it
Resolves(toolInvocation) ==
    /\ Get(toolInvocation, "tool_name").t = "str"
    /\ FindTool(cfg.agentTools, Get(toolInvocation, "tool_name")) # Undef

\* The requests the loop skips (no connected tool of that name) before the next
\* one it invokes, or cannot look up
RECURSIVE SkipUnresolved(_)
SkipUnresolved(todo) ==
    IF todo = <<>> \/ DispatchThrows(todo) THEN todo
    ELSE IF FindTool(cfg.agentTools, Get(Head(todo), "tool_name")) = Undef
         THEN SkipUnresolved(Tail(todo))
         ELSE todo

\* As AgentNextAwait, but making the post-tool call as soon as one tool has run
AgentNextAwaitEarly(requested, todo, invoked) ==
    IF requested /\ invoked # <<>> THEN "llmPost"
    ELSE IF todo # <<>> THEN "tool"
    ELSE IF requested THEN (IF SinglePrompt THEN "finish" ELSE "llmResp")
    ELSE (IF SinglePrompt /\ ~useAgent THEN "finish" ELSE "llmResp")

\* As AgentNextAwait, but going from the tools straight to the response in
\* double-prompt mode
AgentNextAwaitUnreconciled(requested, todo, invoked) ==
    IF todo # <<>> THEN "tool"
    ELSE IF requested /\ invoked # <<>> /\ SinglePrompt THEN "llmPost"
    ELSE IF SinglePrompt /\ (requested \/ ~useAgent) THEN "finish" ELSE "llmResp"

\* As AgentNextAwait, but asking the model again when no tool of the batch
\* has returned
AgentNextAwaitRetries(requested, todo, invoked) ==
    IF todo # <<>> THEN "tool"
    ELSE IF requested
         THEN (IF invoked # <<>> THEN "llmPost" ELSE "llm1")
         ELSE (IF SinglePrompt /\ ~useAgent THEN "finish" ELSE "llmResp")

\* The call the agent awaits next
AgentNextAwait(requested, todo, invoked) ==
    IF todo # <<>> THEN "tool"
    ELSE IF requested
         THEN (IF invoked # <<>> THEN "llmPost"
               ELSE IF SinglePrompt THEN "finish" ELSE "llmResp")
         ELSE (IF SinglePrompt /\ ~useAgent THEN "finish" ELSE "llmResp")
\* The call the handler's user role awaits next
HandlerNextAwait(todo, results, deps) ==
    IF todo # <<>> THEN "tool"
    ELSE IF results # <<>> /\ deps # {} THEN "llmPost"
    ELSE "finish"

\* The locals an action leaves behind
Locals(st, changed, resp, requested, todo, results, invoked, deps, round) ==
    [state |-> st, changed |-> changed, response |-> resp, requested |-> requested,
     todo |-> todo, results |-> results, invoked |-> invoked, deps |-> deps, round |-> round]

\* As SavesNow, but saving whether or not anything changed
SavesAtEnd(nxt, changed) == nxt = "finish" /\ tracksState

\* As SavesNow, but saving after every step that changed something
SavesEveryStep(nxt, changed) == tracksState /\ changed # <<>>

\* As Written, but the store rejects the write of an execution that read
\* the session before the store's last write
WrittenIfCurrent(st) ==
    IF store = prevState THEN JsonRoundTrip(st) ELSE store

\* The store's content after callStateWorkflow("set", JSON.stringify(state)):
\* the record written takes the place of the one stored
Written(st) == JsonRoundTrip(st)

\* As SavesNow, but saving before the dispatch of the tools as well
SavesBeforeDispatch(nxt, changed) ==
    nxt \in {"tool", "finish"} /\ tracksState /\ changed # <<>>

\* Save State: at the end, when something is tracked and something changed
SavesNow(nxt, changed) == nxt = "finish" /\ tracksState /\ changed # <<>>

\* As UpdatesHistory, but only for a history that already has entries
UpdatesHistoryIfAny(nxt) ==
    /\ nxt = "finish"
    /\ IsAgent /\ cfg.conversationHistory /\ Truthy(conversationHistoryValue)
    /\ conversationHistoryValue.items # <<>>

\* Update Conversation History: if (conversationHistory && conversationHistoryValue)
UpdatesHistory(nxt) ==
    /\ nxt = "finish"
    /\ IsAgent /\ cfg.conversationHistory /\ Truthy(conversationHistoryValue)

\* As AppendedHistory, but starting a new history with the two entries
RestartedHistory(resp) ==
    Arr(<< HistoryEntry("user", Message), HistoryEntry("assistant", resp) >>)

\* conversationHistoryValue.push({role: "user", ...}); push({role: "assistant", ...})
AppendedHistory(resp) ==
    Arr(conversationHistoryValue.items \o
        << HistoryEntry("user", Message), HistoryEntry("assistant", resp) >>)

\* As StartedCalls, but starting every remaining call at once
StartedAllCalls(nxt, todo) ==
    IF nxt = "tool"
    THEN LET all == SelectSeq(todo, Resolves)
         IN toolCalls \o [i \in 1..Len(all) |-> FindTool(cfg.agentTools, Get(all[i], "tool_name"))]
    ELSE toolCalls

\* await tool.invoke(...): the call for the request the loop has reached starts
StartedCalls(nxt, todo) ==
    IF nxt = "tool"
    THEN Append(toolCalls, FindTool(cfg.agentTools, Get(Head(todo), "tool_name")))
    ELSE toolCalls

\* The wait for the next call; or history append, save and output
Proceed(nxt, w, tr, setOk) ==
    LET withHistory == UpdatesHistory(nxt)
        history == AppendedHistory(w.response)
        finalState == IF withHistory THEN Put(w.state, "conversation_history", history) ELSE w.state
        finalChanged == IF withHistory THEN PushUnique(w.changed, "conversation_history")
                        ELSE w.changed
        saves == SavesNow(nxt, finalChanged)
    IN IF saves /\ ~setOk
       THEN Abort(Append(tr, "set"), Failure("set"))
       ELSE /\ pc' = IF nxt = "finish" THEN "done" ELSE nxt
            /\ toolsToInvoke' = w.todo /\ toolResults' = w.results
            /\ toolsRequested' = w.requested /\ toolCalls' = StartedCalls(nxt, w.todo)
            /\ invokedToolNames' = w.invoked /\ stateFieldsWithDependencies' = w.deps
            /\ lastRound' = w.round /\ response' = w.response
            /\ state' = finalState /\ stateChangedProps' = finalChanged
            /\ conversationHistoryValue' =
                  IF withHistory THEN history ELSE conversationHistoryValue
            /\ prevState' = IF withHistory /\ historyAliased
                            THEN Put(prevState, "conversation_history", history)
                            ELSE prevState
            /\ store' = IF saves THEN Written(finalState) ELSE store
            /\ trace' = IF saves THEN Append(tr, "set") ELSE tr
            /\ UNCHANGED <<cfg, historyAliased, error>>

\* Get Previous State (agent): the store is read only when there is something
\* to track; the history is the stored array itself, or a new empty one
AgentLoadState ==
    /\ pc = "start" /\ IsAgent
    /\ LET loaded == IF tracksState THEN store ELSE EmptyObj
           stored == Get(loaded, "conversation_history")
       IN /\ prevState' = loaded
          /\ trace' = IF tracksState THEN <<"get">> ELSE <<>>
          /\ conversationHistoryValue' =
                IF cfg.conversationHistory
                THEN (IF Truthy(stored) THEN stored ELSE Arr(<<>>))
                ELSE Null
          /\ historyAliased' = (cfg.conversationHistory /\ Truthy(stored))
    /\ pc' = "llm1"
    /\ UNCHANGED <<cfg, store, state, stateChangedProps, toolsToInvoke, toolResults,
                   invokedToolNames, toolsRequested, toolCalls, stateFieldsWithDependencies,
                   response, error, lastRound>>

\* Get Previous State (handler): the tool's text is parsed, an array is unwrapped
HandlerLoadState(wrapped) ==
    /\ pc = "start" /\ IsHandler
    /\ LET stateManagementResponse == JsonText(IF wrapped THEN Arr(<<store>>) ELSE store)
           parsedResponse == JsonParse(stateManagementResponse)
           previousStateData == IF parsedResponse.t = "arr"
                                THEN (IF parsedResponse.items = <<>> THEN Undef
                                      ELSE parsedResponse.items[1])
                                ELSE parsedResponse
       IN prevState' = IF Truthy(previousStateData) THEN previousStateData ELSE EmptyObj
    /\ trace' = <<"get">>
    /\ pc' = "llm1"
    /\ UNCHANGED <<cfg, store, state, stateChangedProps, toolsToInvoke, toolResults,
                   invokedToolNames, toolsRequested, toolCalls, stateFieldsWithDependencies,
                   conversationHistoryValue, historyAliased, response, error, lastRound>>

\* As StoreGetFails, but the failure of the get call surfaces only when the
\* first answer of the model is in
StoreGetFailsLate ==
    /\ pc = "llm1" /\ tracksState
    /\ Abort(Append(trace, "llm"), Failure("get"))

\* The get call throws, or the workflow returns no data
StoreGetFails ==
    /\ pc = "start" /\ tracksState
    /\ Abort(<<"get">>, Failure("get"))

\* A call of the language model throws
ModelCallFails ==
    /\ pc \in {"llm1", "llmPost", "llmResp"}
    /\ Abort(Append(trace, "llm"), Failure("llm"))

\* tools_to_invoke of a parsed answer: parsedResult.tools_to_invoke || [], and
\* [] again when that is no array
RequestedTools(parsedResult) ==
    LET given == Get(parsedResult, "tools_to_invoke")
    IN IF Truthy(given) /\ given.t = "arr" THEN given.items ELSE <<>>

\* As ParseRequired, but reading an answer that is no JSON as an empty answer
ParseOrEmpty(reply) ==
    IF JsonParse(cleanJsonResponse(reply)) = Undef THEN EmptyObj
    ELSE JsonParse(cleanJsonResponse(reply))

\* JSON.parse(cleanJsonResponse(result)) in the try block of a required round:
\* Undef stands for the SyntaxError
ParseRequired(reply) == JsonParse(cleanJsonResponse(reply))

\* First call of the agent with a state model (combined call, or state
\* analysis call): parse, extract the state, take the tool requests
AgentAnalyze(reply, setOk) ==
    /\ pc = "llm1" /\ IsAgent /\ HasStateModel
    /\ LET tr == Append(trace, "llm")
           parsedResult == ParseRequired(reply)
           extracted == validateAndExtractState(parsedResult, cfg.stateModel, state,
                                                prevStateModelOnly, isFirstRun)
       IN IF parsedResult = Undef \/ ~extracted.ok
          THEN Abort(tr, ParseFailure(IF parsedResult = Undef THEN SyntaxError ELSE TypeError))
          ELSE LET given == Get(parsedResult, "state")
                   resp == IF SinglePrompt /\ ~useAgent /\ Truthy(Get(parsedResult, "response"))
                           THEN Get(parsedResult, "response")
                           ELSE EmptyStr
                   requested == IF useAgent THEN RequestedTools(parsedResult) ELSE <<>>
                   todo == SkipUnresolved(requested)
               IN IF DispatchThrows(todo)
                  THEN Abort(tr, Failure(TypeError))
                  ELSE Proceed(AgentNextAwait(requested # <<>>, todo, <<>>),
                               Locals(extracted.state, extracted.changed, resp, requested, todo,
                                      <<>>, <<>>, {},
                                      Round("first", IF Truthy(given) THEN given ELSE EmptyObj,
                                            prevStateModelOnly)),
                               tr, setOk)

\* Simple path of the agent (no state model): one chain call, or the agent
\* executor's loop when tools are connected; the text is the response
AgentPlainResponse(text, setOk) ==
    /\ pc = "llm1" /\ IsAgent /\ ~HasStateModel
    /\ Proceed("finish",
               Locals(state, stateChangedProps, text, <<>>, <<>>, <<>>, <<>>, {}, Undef),
               Append(trace, IF useAgent THEN "agentloop" ELSE "llm"), setOk)

\* tool.invoke returns or throws for the request at the head of the loop
ToolInvoked(outcome, setOk) ==
    /\ pc = "tool"
    /\ LET done == DispatchOne(Head(toolsToInvoke), outcome, cfg.stateModel, state,
                               stateChangedProps, toolResults, invokedToolNames)
           todo == SkipUnresolved(Tail(toolsToInvoke))
           nxt == IF IsAgent THEN AgentNextAwait(TRUE, todo, done.invoked)
                  ELSE HandlerNextAwait(todo, done.results, stateFieldsWithDependencies)
       IN IF DispatchThrows(todo)
          THEN Abort(Append(trace, "tool"), Failure(TypeError))
          ELSE Proceed(nxt,
                       Locals(done.state, done.changed, response, toolsRequested, todo,
                              done.results, IF IsAgent THEN done.invoked ELSE <<>>,
                              stateFieldsWithDependencies, Undef),
                       Append(trace, "tool"), setOk)

\* As ApplyMerged, but computing the changeset anew from the stored values
ApplyMergedRecomputed(ks, mergedState, st, changed) ==
    [state |-> CopyKeys(ks, mergedState, st),
     changed |-> ChangedKeys(cfg.stateModel, prevStateModelOnly, CopyKeys(ks, mergedState, st))]

\* As ApplyMerged, but taking the merged values without recording the keys
ApplyMergedSilently(ks, mergedState, st, changed) ==
    [state |-> CopyKeys(ks, mergedState, st), changed |-> changed]

\* for (key of Object.keys(stateModel)) if the merged value differs: take it and
\* record the key
RECURSIVE ApplyMerged(_, _, _, _)
ApplyMerged(ks, mergedState, st, changed) ==
    IF ks = <<>> THEN [state |-> st, changed |-> changed]
    ELSE LET key == Head(ks)
             differs == Stringify(Get(st, key)) # Stringify(Get(mergedState, key))
         IN ApplyMerged(Tail(ks), mergedState,
                        IF differs THEN Put(st, key, Get(mergedState, key)) ELSE st,
                        IF differs THEN PushUnique(changed, key) ELSE changed)

\* As PostToolCatchRethrows, but rethrowing as the catch blocks of the required
\* rounds do
CatchRethrows == TRUE

\* catch (error) { /* continue with current state */ } around the post-tool
\* round: the block is empty
PostToolCatchRethrows == FALSE

\* Post-tool call of the agent: the combined call answers {state, response},
\* the state call answers the state itself; a failure to parse is swallowed
AgentPostTool(reply, setOk) ==
    /\ pc = "llmPost" /\ IsAgent
    /\ LET tr == Append(trace, "llm")
           parsedResult == JsonParse(cleanJsonResponse(reply))
           threw == parsedResult = Undef \/ (SinglePrompt /\ PropThrows(parsedResult))
           updatedState == IF SinglePrompt THEN Get(parsedResult, "state") ELSE parsedResult
           merges == ~threw /\ (SinglePrompt => Truthy(updatedState))
           applied == IF merges
                      THEN ApplyMerged(ModelKeys,
                                       mergeStateWithModel(updatedState, cfg.stateModel, state),
                                       state, stateChangedProps)
                      ELSE [state |-> state, changed |-> stateChangedProps]
           resp == IF ~threw /\ SinglePrompt /\ Truthy(Get(parsedResult, "response"))
                   THEN Get(parsedResult, "response")
                   ELSE response
       IN IF threw /\ PostToolCatchRethrows
          THEN Abort(tr, ParseFailure(IF parsedResult = Undef THEN SyntaxError ELSE TypeError))
          ELSE Proceed(IF SinglePrompt THEN "finish" ELSE "llmResp",
                       Locals(applied.state, applied.changed, resp, toolsRequested, <<>>,
                              toolResults, invokedToolNames, {},
                              IF merges THEN Round("post", updatedState, state) ELSE Undef),
                       tr, setOk)

\* The response call: its text is the response
AgentRespond(text, setOk) ==
    /\ pc = "llmResp" /\ IsAgent
    /\ Proceed("finish",
               Locals(state, stateChangedProps, text, toolsRequested, <<>>, toolResults,
                      invokedToolNames, {}, Undef),
               Append(trace, "llm"), setOk)

\* As SystemMessageChanged, but whether or not the message differs
SystemMessageAlwaysChanged == TRUE

\* if (prevState.system_last_message !== message)
SystemMessageChanged == Get(prevState, "system_last_message") # Message

\* System role of the handler: the answer is the new state; missing fields
\* become null, the message is recorded, the changes are computed and saved
HandlerSystemUpdate(reply, setOk) ==
    /\ pc = "llm1" /\ IsHandler /\ cfg.role # "user"
    /\ LET tr == Append(trace, "llm")
           parsed == ParseRequired(reply)
       IN IF parsed = Undef \/ InThrows(parsed)
          THEN Abort(tr, ParseFailure(IF parsed = Undef THEN SyntaxError ELSE TypeError))
          ELSE LET filled == Put(FillMissing(ModelKeys, parsed), "system_last_message", Message)
                   changedProps == ChangedKeys(cfg.stateModel, prevStateModelOnly, filled)
                   changed == IF SystemMessageChanged
                              THEN Append(changedProps, "system_last_message")
                              ELSE changedProps
               IN Proceed("finish",
                          Locals(filled, changed, response, <<>>, <<>>, <<>>, <<>>, {},
                                 Round("first", parsed, prevStateModelOnly)),
                          tr, setOk)

\* fields_needing_post_analysis.forEach(field => field in stateModel && add)
FlaggedFields(parsedResult) ==
    LET given == Get(parsedResult, "fields_needing_post_analysis")
    IN IF Truthy(given) /\ given.t = "arr"
       THEN { given.items[i].s : i \in { j \in DOMAIN given.items :
                                           In(given.items[j].s, cfg.stateModel) } }
       ELSE {}

\* User role of the handler, first call: state, tool requests and the fields
\* that depend on tool results
HandlerUserAnalyze(reply, setOk) ==
    /\ pc = "llm1" /\ IsHandler /\ cfg.role = "user"
    /\ LET tr == Append(trace, "llm")
           parsedResult == ParseRequired(reply)
           given == IF PropThrows(parsedResult) THEN Undef ELSE Get(parsedResult, "state")
           newState == IF Truthy(given) THEN given ELSE EmptyObj
       IN IF parsedResult = Undef \/ PropThrows(parsedResult) \/ InThrows(newState)
          THEN Abort(tr, ParseFailure(IF parsedResult = Undef THEN SyntaxError ELSE TypeError))
          ELSE LET filled == FillMissing(ModelKeys, newState)
                   changed == ChangedKeys(cfg.stateModel, prevStateModelOnly, filled)
                   requested == RequestedTools(parsedResult)
                   todo == SkipUnresolved(requested)
                   deps == FlaggedFields(parsedResult)
               IN IF DispatchThrows(todo)
                  THEN Abort(tr, Failure(TypeError))
                  ELSE Proceed(HandlerNextAwait(todo, <<>>, deps),
                               Locals(filled, changed, response, requested, todo, <<>>, <<>>,
                                      deps, Round("first", newState, prevStateModelOnly)),
                               tr, setOk)

\* for (key of Object.keys(stateModel)) if key in updatedState and the value
\* differs: take it and record the key
RECURSIVE ApplyUpdated(_, _, _, _)
ApplyUpdated(ks, updatedState, st, changed) ==
    IF ks = <<>> THEN [state |-> st, changed |-> changed]
    ELSE LET key == Head(ks)
             takes == In(key, updatedState) /\
                      Stringify(Get(st, key)) # Stringify(Get(updatedState, key))
         IN ApplyUpdated(Tail(ks), updatedState,
                         IF takes THEN Put(st, key, Get(updatedState, key)) ELSE st,
                         IF takes THEN PushUnique(changed, key) ELSE changed)

\* Post-tool state call of the handler; a failure to parse is swallowed
HandlerPostTool(reply, setOk) ==
    /\ pc = "llmPost" /\ IsHandler
    /\ LET tr == Append(trace, "llm")
           updatedState == JsonParse(cleanJsonResponse(reply))
           threw == updatedState = Undef \/ (ModelKeys # <<>> /\ InThrows(updatedState))
           applied == IF threw THEN [state |-> state, changed |-> stateChangedProps]
                      ELSE ApplyUpdated(ModelKeys, updatedState, state, stateChangedProps)
       IN IF threw /\ PostToolCatchRethrows
          THEN Abort(tr, ParseFailure(IF updatedState = Undef THEN SyntaxError ELSE TypeError))
          ELSE Proceed("finish",
                       Locals(applied.state, applied.changed, response, toolsRequested, <<>>,
                              toolResults, <<>>, stateFieldsWithDependencies,
                              IF threw THEN Undef ELSE Round("post", updatedState, state)),
                       tr, setOk)

Next ==
    \/ AgentLoadState /\ UNCHANGED <<mvars, bvars>>
    \/ (\E wrapped \in BOOLEAN : HandlerLoadState(wrapped)) /\ UNCHANGED <<mvars, bvars>>
    \/ StoreGetFails /\ UNCHANGED <<mvars, bvars>>
    \/ ModelCallFails /\ UNCHANGED <<mvars, bvars>>
    \/ (\E reply \in (IF useAgent THEN AnswersWithTools ELSE AnswersWithoutTools),
           setOk \in BOOLEAN : AgentAnalyze(reply, setOk)) /\ UNCHANGED <<mvars, bvars>>
    \/ (\E setOk \in BOOLEAN, iterations \in 1..maxIterations :
            /\ AgentPlainResponse(FirstResponse, setOk)
            /\ agentIterations' = IF useAgent THEN iterations ELSE 0)
          /\ UNCHANGED <<mvars, itemIndex, returnData, continueOnFail, other>>
    \/ (\E outcome \in ToolOutcomes, setOk \in BOOLEAN : ToolInvoked(outcome, setOk))
          /\ UNCHANGED <<mvars, bvars>>
    \/ (\E reply \in (IF SinglePrompt THEN PostToolAnswers ELSE RefinedStateAnswers),
           setOk \in BOOLEAN : AgentPostTool(reply, setOk)) /\ UNCHANGED <<mvars, bvars>>
    \/ (\E text \in {FinalResponse, EmptyStr}, setOk \in BOOLEAN : AgentRespond(text, setOk))
          /\ UNCHANGED <<mvars, bvars>>
    \/ (\E reply \in StateAnswers, setOk \in BOOLEAN : HandlerSystemUpdate(reply, setOk))
          /\ UNCHANGED <<mvars, bvars>>
    \/ (\E reply \in HandlerUserAnswers, setOk \in BOOLEAN : HandlerUserAnalyze(reply, setOk))
          /\ UNCHANGED <<mvars, bvars>>
    \/ (\E reply \in RefinedStateAnswers, setOk \in BOOLEAN : HandlerPostTool(reply, setOk))
          /\ UNCHANGED <<mvars, bvars>>

Spec == Init /\ [][Next]_vars

\* Every awaited call returns or throws: a step that can be taken is taken
FairSpec == Init /\ [][Next]_vars /\ WF_vars(Next)

----------------------------------------------------------------------------
(* The loop over the input items: for (itemIndex ...) { try {...} catch {...} } *)

\* Nodes and answers of the executions with several items: an agent that
\* keeps fields and history, a handler that dispatches tools; an answer that
\* sets a field, one that is no JSON; a tool request, alone and before a
\* request without a tool name
BatchConfigs ==
    { c \in Configs :
        /\ c.stateModel = ObjAll(Fields, D) /\ c.role = "user" /\ c.singlePromptStateTracking
        /\ \/ c.node = "agent" /\ c.conversationHistory /\ c.agentTools = NoTools
           \/ c.node = "handler" /\ c.agentTools = ToolCatalog }
BatchAnswers ==
    { Bare(JsonText(AnswerObject(ObjAll(<<"a">>, V), Undef, FirstResponse, Undef))),
      Bare(Garbage) }
BatchToolAnswers ==
    { Bare(JsonText(AnswerObject(ObjAll(<<"a">>, U), Arr(tl), Undef, Undef))) :
        tl \in { <<UsualRequest>>, <<UsualRequest, Request(Undef, Str("because"), Str("a"))>> } }

\* The output record of an item: {json: {response, state, prevState,
\* stateChangedProps}, pairedItem}, or {json: {error}, error, pairedItem}
OutputRecord ==
    [pairedItem |-> itemIndex, error |-> Undef, state |-> state, prevState |-> prevState,
     stateChangedProps |-> stateChangedProps, response |-> response]
ErrorRecord ==
    [pairedItem |-> itemIndex, error |-> error, state |-> Undef, prevState |-> Undef,
     stateChangedProps |-> <<>>, response |-> Undef]

\* As ContinuesOnFail, but never continuing
NeverContinues == FALSE

\* if (this.continueOnFail())
ContinuesOnFail == continueOnFail

\* itemIndex++ and the declarations at the head of the loop body; after the
\* last item: return [returnData]
NextIteration ==
    /\ itemIndex' = itemIndex + 1
    /\ pc' = IF itemIndex < MaxItems THEN "start" ELSE "returned"
    /\ prevState' = EmptyObj /\ state' = EmptyObj /\ stateChangedProps' = <<>>
    /\ toolsToInvoke' = <<>> /\ toolResults' = <<>> /\ invokedToolNames' = <<>>
    /\ toolsRequested' = <<>> /\ toolCalls' = <<>>
    /\ stateFieldsWithDependencies' = {}
    /\ conversationHistoryValue' = Null /\ historyAliased' = FALSE
    /\ response' = EmptyStr /\ error' = Undef /\ lastRound' = Undef /\ trace' = <<>>
    /\ UNCHANGED <<cfg, store, continueOnFail, other, agentIterations>>

\* The item's record has been pushed: on to the next item
ItemDone ==
    /\ pc = "done"
    /\ returnData' = Append(returnData, OutputRecord)
    /\ NextIteration

\* catch (error) with continueOnFail: an error record for the item, and on
ItemFailed ==
    /\ pc = "failed" /\ ContinuesOnFail
    /\ returnData' = Append(returnData, ErrorRecord)
    /\ NextIteration

\* catch (error) without continueOnFail: the error leaves execute(), and the
\* records collected so far with it
ExecuteThrows ==
    /\ pc = "failed" /\ ~ContinuesOnFail
    /\ pc' = "thrown" /\ returnData' = <<>>
    /\ UNCHANGED <<cfg, store, prevState, state, stateChangedProps, toolsToInvoke,
                   toolResults, invokedToolNames, toolsRequested, toolCalls,
                   stateFieldsWithDependencies, conversationHistoryValue, historyAliased,
                   response, error, lastRound, trace, itemIndex, continueOnFail, other,
                   agentIterations>>

BatchInit ==
    /\ MergeIdle
    /\ itemIndex = 1 /\ returnData = <<>> /\ continueOnFail \in BOOLEAN /\ other = Undef
    /\ agentIterations = 0
    /\ cfg \in BatchConfigs
    /\ store \in { EmptyObj, StoreOf(StoredFields, Undef, Undef) }
    /\ pc = "start"
    /\ prevState = EmptyObj /\ state = EmptyObj /\ stateChangedProps = <<>>
    /\ toolsToInvoke = <<>> /\ toolResults = <<>> /\ invokedToolNames = <<>>
    /\ toolsRequested = <<>> /\ toolCalls = <<>>
    /\ stateFieldsWithDependencies = {}
    /\ conversationHistoryValue = Null /\ historyAliased = FALSE
    /\ response = EmptyStr /\ error = Undef /\ lastRound = Undef /\ trace = <<>>

BatchNext ==
    \/ AgentLoadState /\ UNCHANGED <<mvars, bvars>>
    \/ HandlerLoadState(FALSE) /\ UNCHANGED <<mvars, bvars>>
    \/ StoreGetFails /\ UNCHANGED <<mvars, bvars>>
    \/ ModelCallFails /\ UNCHANGED <<mvars, bvars>>
    \/ (\E reply \in BatchAnswers, setOk \in BOOLEAN : AgentAnalyze(reply, setOk))
          /\ UNCHANGED <<mvars, bvars>>
    \/ (\E reply \in BatchToolAnswers \cup {Bare(Garbage)}, setOk \in BOOLEAN :
            HandlerUserAnalyze(reply, setOk)) /\ UNCHANGED <<mvars, bvars>>
    \/ (\E outcome \in ToolOutcomes, setOk \in BOOLEAN : ToolInvoked(outcome, setOk))
          /\ UNCHANGED <<mvars, bvars>>
    \/ ItemDone /\ UNCHANGED mvars
    \/ ItemFailed /\ UNCHANGED mvars
    \/ ExecuteThrows /\ UNCHANGED mvars

BatchSpec == BatchInit /\ [][BatchNext]_vars

----------------------------------------------------------------------------
(* Two executions on one session: each awaits its calls while the other runs *)

\* The locals of the execution that runs, as the record kept of the other
LocalsNow ==
    [pc |-> pc, prevState |-> prevState, state |-> state,
     stateChangedProps |-> stateChangedProps, toolsToInvoke |-> toolsToInvoke,
     toolResults |-> toolResults, invokedToolNames |-> invokedToolNames,
     toolsRequested |-> toolsRequested, toolCalls |-> toolCalls,
     stateFieldsWithDependencies |-> stateFieldsWithDependencies,
     conversationHistoryValue |-> conversationHistoryValue,
     historyAliased |-> historyAliased, response |-> response, error |-> error,
     lastRound |-> lastRound, trace |-> trace]

\* The locals of an execution that has not started
LocalsAtStart ==
    [pc |-> "start", prevState |-> EmptyObj, state |-> EmptyObj,
     stateChangedProps |-> <<>>, toolsToInvoke |-> <<>>, toolResults |-> <<>>,
     invokedToolNames |-> <<>>, toolsRequested |-> <<>>, toolCalls |-> <<>>,
     stateFieldsWithDependencies |-> {}, conversationHistoryValue |-> Null,
     historyAliased |-> FALSE, response |-> EmptyStr, error |-> Undef,
     lastRound |-> Undef, trace |-> <<>>]

\* The execution that runs awaits a call (or is over) and the other one, not
\* yet over, goes on: the node parameters and the store are common to both
OtherRuns ==
    /\ other.pc \notin {"done", "failed"}
    /\ other' = LocalsNow
    /\ pc' = other.pc /\ prevState' = other.prevState /\ state' = other.state
    /\ stateChangedProps' = other.stateChangedProps
    /\ toolsToInvoke' = other.toolsToInvoke /\ toolResults' = other.toolResults
    /\ invokedToolNames' = other.invokedToolNames
    /\ toolsRequested' = other.toolsRequested /\ toolCalls' = other.toolCalls
    /\ stateFieldsWithDependencies' = other.stateFieldsWithDependencies
    /\ conversationHistoryValue' = other.conversationHistoryValue
    /\ historyAliased' = other.historyAliased
    /\ response' = other.response /\ error' = other.error
    /\ lastRound' = other.lastRound /\ trace' = other.trace
    /\ UNCHANGED <<cfg, store, itemIndex, returnData, continueOnFail, agentIterations>>

\* Two executions of the agent with a state model and the history, without
\* tools, on a session that holds the fields, with or without a history
RaceInit ==
    /\ MergeIdle
    /\ itemIndex = 1 /\ returnData = <<>> /\ continueOnFail = FALSE
    /\ other = LocalsAtStart /\ agentIterations = 0
    /\ cfg \in { c \in Configs :
                    /\ c.node = "agent" /\ c.stateModel = ObjAll(Fields, D)
                    /\ c.conversationHistory /\ c.agentTools = NoTools }
    /\ store \in { StoreOf(StoredFields, Undef, Undef) }
                  \cup { StoreOf(StoredFields, ch, Message) : ch \in PastHistories }
    /\ pc = "start"
    /\ prevState = EmptyObj /\ state = EmptyObj /\ stateChangedProps = <<>>
    /\ toolsToInvoke = <<>> /\ toolResults = <<>> /\ invokedToolNames = <<>>
    /\ toolsRequested = <<>> /\ toolCalls = <<>>
    /\ stateFieldsWithDependencies = {}
    /\ conversationHistoryValue = Null /\ historyAliased = FALSE
    /\ response = EmptyStr /\ error = Undef /\ lastRound = Undef /\ trace = <<>>

\* The answers of the two executions: one sets a field, one another
RaceAnswers ==
    { Bare(JsonText(AnswerObject(ObjAll(<<"a">>, V), Undef, FirstResponse, Undef))),
      Bare(JsonText(AnswerObject(ObjAll(<<"task_steps">>, V), Undef, FinalResponse, Undef))) }

RaceNext ==
    \/ AgentLoadState /\ UNCHANGED <<mvars, bvars>>
    \/ StoreGetFails /\ UNCHANGED <<mvars, bvars>>
    \/ ModelCallFails /\ UNCHANGED <<mvars, bvars>>
    \/ (\E reply \in RaceAnswers, setOk \in BOOLEAN : AgentAnalyze(reply, setOk))
          /\ UNCHANGED <<mvars, bvars>>
    \/ (\E text \in {FinalResponse}, setOk \in BOOLEAN : AgentRespond(text, setOk))
          /\ UNCHANGED <<mvars, bvars>>
    \/ OtherRuns /\ UNCHANGED mvars

RaceSpec == RaceInit /\ [][RaceNext]_vars

----------------------------------------------------------------------------
(* Properties *)

Completed == pc = "done"
Persisted == Completed /\ Includes(trace, "set")
SanctionedExtras == {"conversation_history", "system_last_message"}
FieldSet == SeqToSet(ModelKeys)

\* C1: in an interaction that completes without error, on either node, the keys
\* of the emitted state, and of the persisted one, are the state-model fields
\* plus at most conversation_history and system_last_message.
C1_StateKeysAreModelFields ==
    Completed =>
        /\ FieldSet \subseteq KeySet(state)
        /\ KeySet(state) \subseteq FieldSet \cup SanctionedExtras
        /\ Persisted => KeySet(store) \subseteq FieldSet \cup SanctionedExtras

Merged == mPhase = "merged"
PathsOf(entries) == { entries[i].path : i \in DOMAIN entries }
SchemaPaths == PathsOf(extractStateModelStructure(mS, <<>>))

\* The field paths of an object, read down to the given paths and no further
RECURSIVE FieldPaths(_, _, _)
FieldPaths(obj, prefix, stops) ==
    UNION { LET fullPath == prefix \o Split(key)
            IN IF fullPath \notin stops /\ IsPlainObject(obj.f[key])
               THEN FieldPaths(obj.f[key], fullPath, stops)
               ELSE {fullPath} : key \in KeySet(obj) }

\* C2 as stated: the leaf paths of mergeStateWithModel(C, S, prev) are exactly
\* the paths of extractStateModelStructure(S), below a schema leaf too.
C2_LeafPathsAreSchemaPaths ==
    Merged => PathsOf(extractStateModelStructure(mOut, <<>>)) = SchemaPaths

\* C2 as amended: read down to the schema's leaves and no further, the field
\* paths of mergeStateWithModel(C, S, prev) are exactly the paths of
\* extractStateModelStructure(S); the value at a schema leaf is taken whole.
C2_PathsDownToSchemaLeaves ==
    Merged => FieldPaths(mOut, <<>>, SchemaPaths) = SchemaPaths

\* a candidate with a key outside the schema and an object where the schema has
\* a leaf, merged
C2_Witness ==
    /\ Merged
    /\ Keys(mS) = <<"a", "b">> /\ ~IsObj(Get(mS, "a"))
    /\ HasOwn(mC, "x") /\ HasOwn(Get(mC, "a"), "x")
    /\ Get(mOut, "a") = Get(mC, "a")

\* The schema's fields, each as the chain of schema keys that leads to it
RECURSIVE SchemaChains(_, _)
SchemaChains(model, prefix) ==
    UNION { IF IsPlainObject(model.f[key])
            THEN SchemaChains(model.f[key], Append(prefix, key))
            ELSE {Append(prefix, key)} : key \in KeySet(model) }

\* The value an object holds at a schema field (Undef: none)
ValueAt(obj, chain) == getNestedValue(obj, chain)

\* C3: at every schema field the merged state has C's value when C has a
\* non-null one there, else prev's value when prev has one, else null.
C3_NullFallback ==
    Merged =>
        \A chain \in SchemaChains(mS, <<>>) :
            LET given == ValueAt(mC, chain)
                known == ValueAt(mPrev, chain)
            IN ValueAt(mOut, chain) =
                  IF given # Undef /\ given # Null THEN given
                  ELSE IF known # Undef THEN known
                  ELSE Null

\* A value that is known: present and not null
Known(v) == v # Undef /\ v # Null

\* C4: in no reconciliation round (first extraction, system-role update,
\* post-tool round) does a state-model field that had a known non-null value
\* before the round become null because the model's answer left it out.
C4_OmittedFieldKeepsValue ==
    lastRound # Undef =>
        \A key \in lastRound.omitted :
            Known(Get(lastRound.before, key)) => Get(state, key) = Get(lastRound.before, key)

Remerged == mPhase = "remerged"

\* C5: mergeStateWithModel is idempotent:
\* mergeStateWithModel(mergeStateWithModel(C, S, prev), S, prev) equals
\* mergeStateWithModel(C, S, prev).
C5_MergeIdempotent == Remerged => mOut2 = mOut

\* a nested schema, a candidate that gives the nested field and a prior state
\* that gives the other one, merged twice
C5_Witness ==
    /\ Remerged
    /\ IsObj(Get(mS, "a")) /\ HasOwn(Get(mS, "a"), "n")
    /\ Known(getNestedValue(mC, <<"a", "n">>))
    /\ ~Known(Get(mC, "b")) /\ Known(Get(mPrev, "b"))
    /\ getNestedValue(mOut, <<"a", "n">>) = getNestedValue(mC, <<"a", "n">>)
    /\ Get(mOut, "b") = Get(mPrev, "b")

Compared == mPhase = "compared"

FirstRoundDone == lastRound # Undef /\ lastRound.kind = "first"
StoreHadNoField == \A key \in FieldSet : ~In(key, prevState)
ChangedFields == FieldSet \cap SeqToSet(stateChangedProps)
NonNullFields == { key \in FieldSet : Get(state, key) # Null }

\* C7 as stated: on a first run, whatever state object the model extracts, the
\* changeset of the first round is the full set of state-model keys.
C7_FirstRunChangesetIsFull ==
    (FirstRoundDone /\ StoreHadNoField) => ChangedFields = FieldSet

\* C7 as amended: on a first run the first round's changeset is the full set
\* of state-model keys in the handler; in the agent it is the set of keys whose
\* extracted value is not null, and the full set when there is no such key.
C7_FirstRunChangeset ==
    (FirstRoundDone /\ StoreHadNoField) =>
        ChangedFields = IF IsHandler \/ NonNullFields = {} THEN FieldSet ELSE NonNullFields

\* the agent's first round on a first run, the model having extracted nothing
\* but nulls: both fields are reported
C7_Witness ==
    /\ FirstRoundDone /\ StoreHadNoField /\ IsAgent
    /\ FieldSet = {"a", "task_steps"} /\ NonNullFields = {}
    /\ stateChangedProps = <<"a", "task_steps">>

SetCalls == Cardinality({ i \in DOMAIN trace : trace[i] = "set" })

\* C8 as stated: on a store that holds no state-model field, every interaction
\* with a state model that completes without error invokes set exactly once,
\* whatever the model extracted, and the store then holds every state-model field.
C8_FirstTurnWritesBaseline ==
    (Completed /\ HasStateModel /\ StoreHadNoField) =>
        SetCalls = 1 /\ FieldSet \subseteq KeySet(store)

\* C8 as amended: the same, for a state model that has at least one field.
C8_FirstTurnWritesBaselineOfFields ==
    (Completed /\ HasStateModel /\ FieldSet # {} /\ StoreHadNoField) =>
        SetCalls = 1 /\ FieldSet \subseteq KeySet(store)

\* a first turn without history on a store with unrelated content, in which
\* the model extracted nothing: the all-null record is written
C8_Witness ==
    /\ Completed /\ IsAgent /\ ~cfg.conversationHistory
    /\ FieldSet = {"a", "task_steps"} /\ StoreHadNoField /\ Keys(prevState) # <<>>
    /\ NonNullFields = {}
    /\ SetCalls = 1 /\ store = state

\* C9: the store's set is invoked if and only if the changeset is non-empty
\* after all rounds (first round, tool dispatch, post-tool reconciliation,
\* history append); with an empty final changeset no set is issued.
C9_SetIffChanged ==
    Completed => (SetCalls > 0 <=> stateChangedProps # <<>>)

\* an interaction with a state model and tools that ran its tools and changed
\* nothing: it completes without a set
C9_Witness ==
    /\ Completed /\ FieldSet # {} /\ toolResults # <<>>
    /\ stateChangedProps = <<>> /\ SetCalls = 0

\* C10: within one interaction the store is read at most once, before every
\* model call and tool invocation, and written at most once, after all of them.
C10_GetFirstSetLast ==
    \A i \in DOMAIN trace :
        /\ trace[i] = "get" => i = 1
        /\ trace[i] = "set" => i = Len(trace)

\* an interaction that read the store, called the model, ran a tool, called
\* the model again and wrote the store
C10_Witness ==
    /\ Completed
    /\ Len(trace) >= 5 /\ trace[1] = "get" /\ trace[Len(trace)] = "set"
    /\ \E i, j, k \in DOMAIN trace :
          i < j /\ j < k /\ trace[i] = "llm" /\ trace[j] = "tool" /\ trace[k] = "llm"

----------------------------------------------------------------------------
(* Conversation history *)

HistoryEnabled == IsAgent /\ cfg.conversationHistory
\* The history an object holds: its conversation_history, or no entries
HistoryOf(obj) ==
    IF Truthy(Get(obj, "conversation_history")) THEN Get(obj, "conversation_history").items
    ELSE <<>>

\* C11: with conversation history enabled, every interaction that completes
\* without error has conversation_history in its final changeset and invokes
\* the store's set exactly once, also when no state-model field changed and
\* when no state model is configured.
C11_HistoryAlwaysSaved ==
    (Completed /\ HistoryEnabled) =>
        Includes(stateChangedProps, "conversation_history") /\ SetCalls = 1

\* an interaction with a state model in which no field changed: the history
\* alone is the changeset, and the record is written
C11_Witness ==
    /\ Completed /\ HistoryEnabled
    /\ FieldSet # {} /\ ~StoreHadNoField
    /\ stateChangedProps = <<"conversation_history">> /\ SetCalls = 1

\* C12: the stored conversation_history is append-only: the interaction that
\* completes leaves in the store the history stored before it followed by
\* exactly two entries, {role: user, message: the user message} and then
\* {role: assistant, message: the emitted response}.
C12_HistoryAppendOnly ==
    [][(HistoryEnabled /\ ~Completed /\ Completed') =>
          HistoryOf(store') = HistoryOf(store) \o
              << HistoryEntry("user", Message), HistoryEntry("assistant", response') >>]_vars

\* a stored history of one entry, extended by the interaction's two
C12_Witness ==
    /\ Completed /\ HistoryEnabled
    /\ Len(HistoryOf(store)) = 3
    /\ HistoryOf(store)[1] = HistoryEntry("user", Str("old"))
    /\ HistoryOf(store)[3] = HistoryEntry("assistant", response)
    /\ response # EmptyStr

----------------------------------------------------------------------------
(* The plain response path *)

\* no state model configured and history tracking disabled
PlainPath == IsAgent /\ ~HasStateModel /\ ~cfg.conversationHistory

\* C13: on the plain response path, with or without tools attached, the
\* interaction never invokes the store's get or set, and emits state = {},
\* prevState = {} and an empty stateChangedProps.
C13_PlainPathLeavesStoreAlone ==
    PlainPath =>
        /\ ~Includes(trace, "get") /\ ~Includes(trace, "set")
        /\ store \in Stores
        /\ Completed => state = EmptyObj /\ prevState = EmptyObj /\ stateChangedProps = <<>>

\* the plain path with tools attached, completed on a store that has content:
\* the agent loop is the only external call
C13_Witness ==
    /\ Completed /\ PlainPath /\ useAgent
    /\ store # EmptyObj
    /\ trace = <<"agentloop">> /\ response = FirstResponse

----------------------------------------------------------------------------
(* Failures of the model's output *)

\* What the language model may answer in any round
Replies == AnswersWithoutTools \cup AnswersWithTools \cup HandlerUserAnswers
           \cup StateAnswers \cup RefinedStateAnswers \cup PostToolAnswers
\* not valid JSON after fence stripping
NotJson(reply) == JsonParse(cleanJsonResponse(reply)) = Undef
UnparsableReplies == { reply \in Replies : NotJson(reply) }
\* no JSON, or JSON that is no object
UnusableReplies == { reply \in Replies : ~IsObj(JsonParse(cleanJsonResponse(reply))) }

\* The required rounds: the agent's first state extraction (single- and
\* double-prompt mode), the handler's system-role update and its user-role
\* state and tools extraction
RequiredRound(reply) ==
    \E setOk \in BOOLEAN :
        \/ AgentAnalyze(reply, setOk)
        \/ HandlerSystemUpdate(reply, setOk)
        \/ HandlerUserAnalyze(reply, setOk)

\* C14: if the model's output in a required round is not valid JSON after
\* fence stripping, the interaction aborts with an error carrying the parse
\* message: no tool is invoked, no further model call is made, the store's set
\* is not invoked and no normal output record is emitted.
C14_RequiredRoundParseFailureAborts ==
    [][/\ \A reply \in UnparsableReplies :
             RequiredRound(reply) =>
                 /\ pc' = "failed" /\ error' = ParseFailure(SyntaxError)
                 /\ trace' = Append(trace, "llm")
                 /\ store' = store
       /\ pc \notin {"failed", "done"}]_vars

\* an interaction with tools connected whose first answer was no JSON: it
\* failed with the parse error after the get and the one model call
C14_Witness ==
    /\ pc = "failed" /\ error = ParseFailure(SyntaxError)
    /\ useAgent /\ cfg.stateModel # EmptyObj
    /\ trace = <<"get", "llm">>

\* The optional round: the post-tool reconciliation call of either node
PostToolRound(reply) ==
    \E setOk \in BOOLEAN : AgentPostTool(reply, setOk) \/ HandlerPostTool(reply, setOk)

\* The answer cannot be parsed, or cannot be applied: the combined answer null
\* has no state to read, the handler cannot look a key up in a non-object
CannotApply(reply) ==
    LET parsed == JsonParse(cleanJsonResponse(reply))
    IN \/ IsAgent /\ SinglePrompt /\ PropThrows(parsed)
       \/ IsHandler /\ ModelKeys # <<>> /\ InThrows(parsed)

\* An object without its conversation history, a changeset without that key
SansHistory(obj) ==
    ObjOf(obj.ks, [k \in DOMAIN obj.f |-> IF k = "conversation_history" THEN Undef ELSE obj.f[k]])
FieldChanges(changed) == SelectSeq(changed, LAMBDA k : k # "conversation_history")

\* C15: if the model's output in the optional post-tool round cannot be parsed
\* or applied, no error propagates, the working state and the changeset after
\* the round are what they were before it (after tool dispatch), and the
\* interaction continues to history append, persistence and emit.
C15_PostToolFailureIgnored ==
    [][\A reply \in UnusableReplies :
          ((NotJson(reply) \/ CannotApply(reply)) /\ PostToolRound(reply)) =>
              /\ pc' = "failed" => error' = Failure("set")
              /\ pc' # "failed" =>
                    /\ pc' = IF IsAgent /\ ~SinglePrompt THEN "llmResp" ELSE "done"
                    /\ SansHistory(state') = state
                    /\ FieldChanges(stateChangedProps') = stateChangedProps
                    /\ toolResults' = toolResults
                    /\ (pc' = "done" /\ HistoryEnabled) =>
                           Len(HistoryOf(state')) = Len(HistoryOf(prevState)) + 2
                    /\ pc' = "done" => (stateChangedProps' # <<>> <=> SetCalls' = 1)]_vars

\* the handler's post-tool answer was rejected after a tool had written its
\* field: the interaction completed and saved what the dispatch had left
C15_Witness ==
    /\ Completed /\ IsHandler /\ lastRound = Undef
    /\ Len(trace) = 5 /\ trace[3] = "tool" /\ trace[4] = "llm" /\ trace[5] = "set"
    /\ Includes(stateChangedProps, "a") /\ Get(state, "a") = U
    /\ store = state

----------------------------------------------------------------------------
(* Tool dispatch *)

\* The dispatch loop is running, or has run
Dispatching == pc = "tool"
Dispatched == pc \in {"llmPost", "llmResp", "done"} /\ toolsRequested # <<>>
\* The requests that name a connected tool, those of them the loop has not
\* reached or is invoking, and the number of them it is through with
ResolvedRequests == SelectSeq(toolsRequested, Resolves)
HandledCount == Len(ResolvedRequests) - Len(SelectSeq(toolsToInvoke, Resolves))
ReturnedCalls == Cardinality({ i \in DOMAIN trace : trace[i] = "tool" })
HasResult(record) == HasOwn(record, "result")
HasError(record) == HasOwn(record, "error")

\* The field a request's result is meant for: the declared state_field, else
\* task_steps when the tool's name or the reason mentions steps, else none
TargetOf(toolInvocation) ==
    LET state_field == Get(toolInvocation, "state_field")
        tool_name == Get(toolInvocation, "tool_name")
        reason == Get(toolInvocation, "reason")
    IN IF Truthy(state_field) THEN state_field
       ELSE IF IncludesSteps(ToLower(tool_name.s)) THEN Str("task_steps")
       ELSE IF reason.t = "str" /\ IncludesSteps(ToLower(reason.s)) THEN Str("task_steps")
       ELSE Undef

\* C16: within one dispatch batch, a tool whose invocation throws contributes
\* exactly one record, which carries error and no result, changes no state
\* field and does not stop the loop; a tool whose invocation succeeds, before
\* or after it, has its result record in the results and its parsed result in
\* its target state field.
C16_ToolFailureIsolated ==
    [][\A outcome \in ToolOutcomes :
          (\E setOk \in BOOLEAN : ToolInvoked(outcome, setOk)) =>
              LET request == Head(toolsToInvoke)
                  target == TargetOf(request)
                  added == SubSeq(toolResults', Len(toolResults) + 1, Len(toolResults'))
              IN /\ pc' = "failed" => error' \in {Failure("set"), Failure(TypeError)}
                 /\ pc' # "failed" =>
                       /\ toolsToInvoke' = SkipUnresolved(Tail(toolsToInvoke))
                       /\ SubSeq(toolResults', 1, Len(toolResults)) = toolResults
                       /\ IF outcome.threw
                          THEN /\ Len(added) = 1
                               /\ Get(added[1], "tool_name") = Get(request, "tool_name")
                               /\ HasError(added[1]) /\ ~HasResult(added[1])
                               /\ Get(added[1], "error") = outcome.value
                               /\ SansHistory(state') = state
                               /\ FieldChanges(stateChangedProps') = stateChangedProps
                          ELSE /\ Len(added) >= 1
                               /\ Get(added[1], "tool_name") = Get(request, "tool_name")
                               /\ HasResult(added[1]) /\ ~HasError(added[1])
                               /\ Get(added[1], "result") = outcome.value
                               /\ (Truthy(target) /\ In(target.s, cfg.stateModel)) =>
                                     Get(state', target.s) = parseToolResult(outcome.value)]_vars

\* a batch of two: the first tool threw, the second returned and its parsed
\* result is in its field; the loop went on to the post-tool round
C16_Witness ==
    /\ Dispatched /\ pc = "llmPost"
    /\ Len(toolResults) = 2
    /\ HasError(toolResults[1]) /\ ~HasResult(toolResults[1])
    /\ HasResult(toolResults[2]) /\ Get(toolResults[2], "result") = JsonText(U)
    /\ Get(toolResults[2], "state_field") = Str("a")
    /\ Get(state, "a") = U /\ Includes(stateChangedProps, "a")

\* C17: a request whose tool_name matches no connected tool causes no tool
\* invocation, adds no record to the results, changes neither state nor
\* changeset and does not keep the remaining requests from being dispatched.
C17_UnmatchedRequestSkipped ==
    /\ error # Failure(TypeError)
    /\ (Dispatching \/ Dispatched) =>
          /\ Len(toolCalls) <= Len(ResolvedRequests)
          /\ \A i \in DOMAIN toolsRequested :
                ~Resolves(toolsRequested[i]) =>
                    \A j \in DOMAIN toolResults :
                        Get(toolResults[j], "tool_name") # Get(toolsRequested[i], "tool_name")
          /\ Dispatched => Len(toolCalls) = Len(ResolvedRequests)

\* C18: the results list holds exactly one record per request whose name
\* resolved to a connected tool, a result record or an error record and never
\* both or two, in the order of the requests, and each such request caused
\* exactly one call of the tool's invoke.
C18_OneRecordPerInvocation ==
    (Dispatching \/ Dispatched) =>
        /\ Len(toolResults) = HandledCount
        /\ \A i \in DOMAIN toolResults :
              /\ Get(toolResults[i], "tool_name") = Get(ResolvedRequests[i], "tool_name")
              /\ Get(toolResults[i], "state_field") = Get(ResolvedRequests[i], "state_field")
              /\ HasResult(toolResults[i]) # HasError(toolResults[i])
        /\ Len(toolCalls) = HandledCount + (IF Dispatching THEN 1 ELSE 0)

\* C19: whenever the connected tools include one whose name equals the
\* requested tool_name exactly, that tool is the one invoked, also when a tool
\* whose name matches only case-insensitively comes earlier in the catalog.
C19_ExactMatchPreferred ==
    (Dispatching \/ Dispatched) =>
        \A i \in DOMAIN toolCalls :
            LET tool_name == Get(ResolvedRequests[i], "tool_name")
            IN Includes(cfg.agentTools, tool_name.s) => toolCalls[i] = tool_name

\* C20: the invocations of a batch run one at a time in the order the model
\* listed them: a call starts only after the one before it has returned or
\* thrown, and no two calls are in flight together.
C20_OneCallAtATime ==
    /\ Len(toolCalls) - ReturnedCalls = (IF Dispatching THEN 1 ELSE 0)
    /\ (Dispatching \/ Dispatched) =>
          \A i \in DOMAIN toolCalls :
              toolCalls[i] = FindTool(cfg.agentTools, Get(ResolvedRequests[i], "tool_name"))

\* the second call of a batch of two different tools is in flight, the first
\* has returned
C20_Witness ==
    /\ Dispatching
    /\ Len(toolCalls) = 2 /\ ReturnedCalls = 1 /\ Len(toolResults) = 1
    /\ toolCalls[1] # toolCalls[2]
    /\ Len(ResolvedRequests) = 2

----------------------------------------------------------------------------
(* The post-tool round and the changeset *)

\* The post-tool call is being awaited: its prompt was built from the working
\* state (currentState: JSON.stringify(state, null, 2)) when the loop ended
PostToolCallMade == pc = "llmPost"
\* The request a record of the results was pushed for
RequestOf(record) ==
    CHOOSE r \in SeqToSet(toolsRequested) :
        /\ Get(r, "tool_name") = Get(record, "tool_name")
        /\ Get(r, "state_field") = Get(record, "state_field")
\* The state field a record's result was written to, or Undef
WrittenField(record) ==
    LET target == TargetOf(RequestOf(record))
    IN IF HasResult(record) /\ Truthy(target) /\ In(target.s, cfg.stateModel)
       THEN target ELSE Undef
\* No later record of the batch was written to the same field
LastWriteOf(i) ==
    /\ WrittenField(toolResults[i]) # Undef
    /\ \A j \in DOMAIN toolResults : j > i => WrittenField(toolResults[j]) # WrittenField(toolResults[i])

\* C21: whenever a post-tool reconciliation call is made, every request of the
\* batch has been resolved and every invocation has returned or thrown, and the
\* working state the call is given holds, in each written field, the parsed
\* result of the last tool that wrote to it.
C21_PostToolSeesWholeBatch ==
    PostToolCallMade =>
        /\ toolsToInvoke = <<>>
        /\ Len(toolCalls) = ReturnedCalls
        /\ Len(toolCalls) = Len(ResolvedRequests)
        /\ Len(toolResults) >= Len(toolCalls)
        /\ \A i \in DOMAIN toolResults :
              LastWriteOf(i) =>
                  Get(state, WrittenField(toolResults[i]).s) =
                      parseToolResult(Get(toolResults[i], "result"))

\* a batch of two tools that wrote to two fields: the post-tool call is awaited
\* and the state holds both results
C21_Witness ==
    /\ PostToolCallMade
    /\ Len(toolResults) = 2 /\ Len(toolCalls) = 2
    /\ WrittenField(toolResults[1]) = Str("a")
    /\ WrittenField(toolResults[2]) = Str("task_steps")
    /\ Get(state, "a") = W /\ Get(state, "task_steps") = U

\* C22: the changeset never holds the same path twice, in any interaction of
\* either node and for any state model, one that declares conversation_history
\* or system_last_message included.
C22_ChangesetHasNoDuplicates ==
    \A i, j \in DOMAIN stateChangedProps :
        i # j => stateChangedProps[i] # stateChangedProps[j]

\* The value of a field in the state loaded from the store and in the emitted one
Loaded(key) == Stringify(Get(prevState, key))
Emitted(key) == Stringify(Get(state, key))

\* C23: at emit, every state-model field listed in the changeset has a value in
\* the emitted state whose serialisation differs from that of its value in the
\* state loaded from the store.
C23_ListedFieldsDiffer ==
    Completed =>
        \A key \in FieldSet :
            Includes(stateChangedProps, key) => Emitted(key) # Loaded(key)

\* C24: at emit, every state-model field whose value in the emitted state
\* differs in serialisation from its value in the state loaded from the store
\* is listed in the changeset, whichever round produced the final value.
C24_DifferingFieldsListed ==
    Completed =>
        \A key \in FieldSet :
            Emitted(key) # Loaded(key) => Includes(stateChangedProps, key)

\* The value the comparison takes for a loaded field: the agent takes null for
\* a field the store does not hold
Baseline(key) ==
    IF IsAgent /\ ~In(key, prevState) THEN Stringify(Null) ELSE Loaded(key)

\* C24, with the agent's reading of an absent field: at emit, every state-model
\* field whose emitted value differs in serialisation from its loaded value,
\* null standing for a field the agent did not find in the store, is listed in
\* the changeset, whichever round produced the final value.
C24_DifferingFieldsListedFromBaseline ==
    Completed =>
        \A key \in FieldSet :
            Emitted(key) # Baseline(key) => Includes(stateChangedProps, key)

\* the first round and the tool left a at its stored value, the post-tool
\* round gave it a new one: a is listed
C24_Witness ==
    /\ Completed /\ IsAgent /\ lastRound # Undef /\ lastRound.kind = "post"
    /\ Get(prevState, "a") = U /\ Get(lastRound.before, "a") = U
    /\ Get(state, "a") = V
    /\ Includes(stateChangedProps, "a")

\* s is the beginning of t
IsPrefix(s, t) == Len(s) <= Len(t) /\ SubSeq(t, 1, Len(s)) = s
\* The first reconciliation round is over and the interaction goes on
PastFirstRound == pc \in {"tool", "llmPost", "llmResp"}

\* C25: once the first reconciliation round has computed the changeset, every
\* later stage of the interaction (tool dispatch, post-tool reconciliation,
\* history append) only appends to it: the earlier changeset is a prefix of the
\* later one; and the history append adds its path at the end.
C25_ChangesetOnlyGrows ==
    [][/\ (PastFirstRound /\ pc' # "failed") => IsPrefix(stateChangedProps, stateChangedProps')
       /\ (pc # "done" /\ pc' = "done" /\ HistoryEnabled) =>
             /\ stateChangedProps'[Len(stateChangedProps')] = "conversation_history"
             /\ IsPrefix(FieldChanges(stateChangedProps'), stateChangedProps')]_vars

\* the first round listed task_steps, a tool added a, the post-tool round left
\* both and the history append came last
C25_Witness ==
    /\ Completed /\ HistoryEnabled /\ lastRound # Undef /\ lastRound.kind = "post"
    /\ Len(toolResults) = 1
    /\ stateChangedProps = <<"task_steps", "a", "conversation_history">>

----------------------------------------------------------------------------
(* The handler's post-tool round and its system role *)

HandlerUserRole == IsHandler /\ cfg.role = "user"
ModelCalls == Cardinality({ i \in DOMAIN trace : trace[i] = "llm" })
\* The state-model fields among the names the first answer flagged
FlaggedModelFields == stateFieldsWithDependencies \cap FieldSet
\* At least one tool was invoked during dispatch
ToolRan == toolCalls # <<>>

\* C26: in the handler's user role the post-tool reconciliation call is made
\* if and only if the model flagged at least one state-model field in
\* fields_needing_post_analysis and at least one tool ran during dispatch;
\* otherwise the interaction makes exactly one model call.
C26_PostToolCallIffFlaggedAndRan ==
    HandlerUserRole =>
        /\ PostToolCallMade => (FlaggedModelFields # {} /\ ToolRan)
        /\ Completed =>
              ModelCalls = (IF FlaggedModelFields # {} /\ ToolRan THEN 2 ELSE 1)

\* The handler's post-tool round has been applied
HandlerPostToolApplied ==
    Completed /\ HandlerUserRole /\ lastRound # Undef /\ lastRound.kind = "post"

\* C27: in the handler's user role the post-tool round changes the value of a
\* state field only if the model flagged that field in
\* fields_needing_post_analysis; every other state field has the same value
\* after the round as before it.
C27_PostToolChangesOnlyFlaggedFields ==
    HandlerPostToolApplied =>
        \A key \in FieldSet \ stateFieldsWithDependencies :
            Get(state, key) = Get(lastRound.before, key)

HandlerSystemRole == IsHandler /\ cfg.role # "user"

\* C28: a system-role interaction of the handler makes exactly one model call
\* and invokes no tool, also with tools connected; its emitted state has
\* system_last_message equal to the message; and system_last_message is in the
\* changeset exactly when the message differs from the system_last_message
\* loaded from the store, whichever state-model fields changed.
C28_SystemRoleOneCallNoTools ==
    HandlerSystemRole =>
        /\ toolCalls = <<>> /\ ~Includes(trace, "tool")
        /\ ModelCalls <= 1
        /\ Completed =>
              /\ ModelCalls = 1
              /\ Get(state, "system_last_message") = Message
              /\ Includes(stateChangedProps, "system_last_message")
                    <=> Get(prevState, "system_last_message") # Message

\* with tools connected and the same message as stored: a field changed and was
\* saved after the one model call, system_last_message is not listed
C28_Witness ==
    /\ Completed /\ HandlerSystemRole /\ useAgent
    /\ Get(prevState, "system_last_message") = Message
    /\ Get(state, "system_last_message") = Message
    /\ stateChangedProps = <<"a">>
    /\ trace = <<"get", "llm", "set">>

\* The system-role answer gave no state-model field a new value: it left the
\* field out or repeated the loaded value
NothingExtracted ==
    /\ lastRound # Undef /\ lastRound.kind = "first"
    /\ \A key \in FieldSet : key \in lastRound.omitted \/ Get(state, key) = Get(prevState, key)

\* C29: for a system-role message from which the model extracts nothing, the
\* emitted state equals the loaded state on every state-model field,
\* system_last_message is the message and the changeset is exactly
\* <<system_last_message>>, for every prior store content, the empty store
\* included.
C29_NothingExtractedOnlyMessageChanges ==
    (Completed /\ HandlerSystemRole /\ NothingExtracted) =>
        /\ \A key \in FieldSet : Emitted(key) = Loaded(key)
        /\ Get(state, "system_last_message") = Message
        /\ stateChangedProps = <<"system_last_message">>

----------------------------------------------------------------------------
(* The response of the single-prompt mode with tools *)

SinglePromptWithTools == IsAgent /\ HasStateModel /\ SinglePrompt /\ useAgent
\* The last model call came after every tool call had returned or thrown
LastCallAfterDispatch ==
    \E i \in DOMAIN trace :
        /\ trace[i] = "llm" /\ i > 2
        /\ \A j \in DOMAIN trace : trace[j] = "tool" => j < i

\* C30: in single-prompt mode with tools attached, every interaction that
\* completes without error has made a second model call after tool dispatch
\* and emits the text that call produced as its response, also when the
\* requested tools all failed to resolve or all threw, and when the second
\* call's output was malformed. (After a batch the second call is the combined
\* post-tool call; without requests it is the response call, whose text may be
\* empty.)
C30_ResponseComesFromSecondCall ==
    (Completed /\ SinglePromptWithTools) =>
        /\ ModelCalls = 2 /\ LastCallAfterDispatch
        /\ toolsRequested # <<>> => response = PostToolResponse
        /\ toolsRequested = <<>> => response \in {FinalResponse, EmptyStr}

----------------------------------------------------------------------------
(* The double-prompt mode *)

DoublePrompt == IsAgent /\ HasStateModel /\ ~SinglePrompt
\* At least one call of tool.invoke returned: its result is in the results
SomeToolReturned == \E i \in DOMAIN toolResults : HasResult(toolResults[i])
\* The positions of the model calls among the external calls
ModelCallPositions == { i \in DOMAIN trace : trace[i] = "llm" }
LastModelCall == CHOOSE i \in ModelCallPositions : \A j \in ModelCallPositions : j <= i

InvocationSucceeded(i) ==
    /\ HasResult(toolResults[i])
    /\ ~(i < Len(toolResults) /\ Get(toolResults[i + 1], "error") = Str(TypeError))
SomeInvocationSucceeded == \E i \in DOMAIN toolResults : InvocationSucceeded(i)

----------------------------------------------------------------------------
(* Several items in one execution *)

\* The locals are those of an interaction that starts on its own
FreshLocals ==
    /\ prevState = EmptyObj /\ state = EmptyObj /\ stateChangedProps = <<>>
    /\ toolsToInvoke = <<>> /\ toolResults = <<>> /\ invokedToolNames = <<>>
    /\ toolsRequested = <<>> /\ toolCalls = <<>> /\ stateFieldsWithDependencies = {}
    /\ conversationHistoryValue = Null /\ historyAliased = FALSE
    /\ response = EmptyStr /\ error = Undef /\ lastRound = Undef /\ trace = <<>>
ItemFailedAt(i) == returnData[i].error # Undef

\* C32: in continuation mode a fatal failure of an item yields exactly one
\* error record for it and does not stop the later items: the output holds one
\* record per item handled, in input order; every item starts as an
\* interaction of its own on the store its predecessors left; and the
\* execution returns with one record for every input item.
C32_FailuresIsolatedPerItem ==
    continueOnFail =>
        /\ pc # "thrown"
        /\ Len(returnData) = itemIndex - 1
        /\ \A i \in DOMAIN returnData :
              /\ returnData[i].pairedItem = i
              /\ ItemFailedAt(i) => returnData[i].state = Undef
              /\ ~ItemFailedAt(i) => returnData[i].state # Undef
        /\ pc = "start" => FreshLocals
        /\ pc = "returned" <=> itemIndex = MaxItems + 1

\* the first item failed on an answer that was no JSON, the second was
\* processed and saved: two records, in order
C32_Witness ==
    /\ pc = "returned" /\ continueOnFail
    /\ Len(returnData) = MaxItems
    /\ returnData[1].error = ParseFailure(SyntaxError)
    /\ returnData[2].error = Undef /\ returnData[2].stateChangedProps # <<>>
    /\ store = JsonRoundTrip(returnData[2].state)

----------------------------------------------------------------------------
(* The store cannot be read *)

\* C33: when the node tracks state (a state model or the history) and the get
\* call on the store fails or returns no data, the interaction fails fatally,
\* and by then it has called neither the model nor a tool: the get call is the
\* only external call made, and nothing was written.
C33_GetFailureBeforeAnyCall ==
    error = Failure("get") =>
        /\ pc = "failed" /\ tracksState
        /\ trace = <<"get">>
        /\ ModelCalls = 0 /\ toolCalls = <<>>
        /\ state = EmptyObj /\ stateChangedProps = <<>>

\* an agent with a state model whose get call failed
C33_Witness ==
    /\ IsAgent /\ HasStateModel /\ pc = "failed"
    /\ error = Failure("get") /\ trace = <<"get">>

----------------------------------------------------------------------------
(* The order of the phases *)

\* The place of a phase in the order: LoadState, the first analysis call,
\* ToolDispatch, PostToolReconcile, the response call, and the end (history,
\* save and output, or the fatal error)
PhaseRank(p) ==
    CASE p = "start" -> 0
      [] p = "llm1" -> 1
      [] p = "tool" -> 2
      [] p = "llmPost" -> 3
      [] p = "llmResp" -> 4
      [] OTHER -> 5
\* The phases the order names, and those with the response call of the agent
ListedPhases == {"start", "llm1", "tool", "llmPost", "done", "failed"}
PhasesWithResponseCall == ListedPhases \cup {"llmResp"}

\* A step between phases of the set: forward in the order, staying only in
\* the dispatch (the next tool of the batch); the configuration that selects
\* the branch is as it was; the calls made so far stay, one call has returned
\* (two only when the second is the save at the end); one tool call is
\* awaited during the dispatch and none otherwise
StepInOrder(phases) ==
    /\ pc' \in phases
    /\ PhaseRank(pc') >= PhaseRank(pc)
    /\ PhaseRank(pc') = PhaseRank(pc) => pc = "tool" /\ Len(toolCalls') = Len(toolCalls) + 1
    /\ cfg' = cfg
    /\ IsPrefix(trace, trace')
    /\ Len(trace') - Len(trace) <= 2
    /\ Len(trace') - Len(trace) = 2 =>
          pc' \in {"done", "failed"} /\ trace'[Len(trace')] = "set"
    /\ Len(toolCalls') - ReturnedCalls' = (IF pc' = "tool" THEN 1 ELSE 0)

\* C34 (as stated): every interaction passes through LoadState, the first
\* analysis call, optional ToolDispatch, optional PostToolReconcile, then
\* AppendHistory, Persist and Emit, in this order and through no other phase,
\* none entered twice, the branch fixed, one external call awaited at a time.
C34_PhasesInListedOrder == [][StepInOrder(ListedPhases)]_vars

\* C34 (amended): the same order with one more phase, the response call of
\* the agent, after PostToolReconcile (or after the first analysis call when
\* no tool ran) and before AppendHistory.
C34_PhasesInOrderWithResponseCall == [][StepInOrder(PhasesWithResponseCall)]_vars

\* a double-prompt interaction with history through every phase: get, analysis,
\* a tool, reconciliation, response call, save
C34_Witness ==
    /\ Completed /\ DoublePrompt /\ HistoryEnabled
    /\ trace = <<"get", "llm", "tool", "llm", "llm", "set">>
    /\ Len(HistoryOf(store)) >= 2

----------------------------------------------------------------------------
(* Two executions on one session *)

\* Both executions are over, each has written the store, and each had read
\* the session before the other wrote it (its history has none of the other's
\* entries); the execution whose locals are current wrote last
BothReadBeforeEitherWrote ==
    /\ pc = "done" /\ other.pc = "done"
    /\ Len(HistoryOf(state)) = Len(HistoryOf(other.state))
\* The fields the earlier execution changed to a value the later one did not
\* arrive at
ChangedOnlyByOther ==
    { f \in SeqToSet(FieldChanges(other.stateChangedProps)) :
        Get(other.state, f) # Get(state, f) }

\* C35: when two interactions on one session both read the store before
\* either writes it, the store ends as the record of the later write alone:
\* the two history entries of the earlier one are not in it, and a field the
\* earlier one changed has the value the later one wrote, not the one it was
\* given.
C35_LaterWriteWins ==
    BothReadBeforeEitherWrote =>
        /\ store = JsonRoundTrip(state)
        /\ Len(HistoryOf(store)) = Len(HistoryOf(other.state))
        /\ other.response # response =>
              HistoryEntry("assistant", other.response) \notin SeqToSet(HistoryOf(store))
        /\ \A f \in ChangedOnlyByOther : Get(store, f) # Get(other.state, f)

\* the lost update: the earlier execution set field a and wrote, the later one
\* set another field, and the store has not the new a and has two new entries,
\* not four
C35_Witness ==
    /\ BothReadBeforeEitherWrote
    /\ "a" \in ChangedOnlyByOther
    /\ Get(other.state, "a") = V /\ Get(store, "a") # V
    /\ other.response # response
    /\ Len(HistoryOf(store)) = Len(HistoryOf(other.prevState)) + 2

----------------------------------------------------------------------------
(* What the dispatch of a tool writes *)

\* C36: a tool invocation that returns writes the working state only at its
\* target field, only when the target is a key of the state model and the
\* parsed result differs from the field's value, and then lists the field in
\* the changeset if it is not there; in every other case the working state and
\* the changeset stay as they were.
C36_DispatchWritesOnlyModelTarget ==
    [][\A outcome \in ToolOutcomes :
          ((\E setOk \in BOOLEAN : ToolInvoked(outcome, setOk))
              /\ ~outcome.threw /\ pc' # "failed") =>
              LET target == TargetOf(Head(toolsToInvoke))
                  parsedResult == parseToolResult(outcome.value)
                  written == /\ Truthy(target)
                             /\ target.s \in SeqToSet(ModelKeys)
                             /\ Stringify(Get(state, target.s)) # Stringify(parsedResult)
              IN IF written
                 THEN /\ SansHistory(state') = Put(state, target.s, parsedResult)
                      /\ FieldChanges(stateChangedProps') =
                            PushUnique(stateChangedProps, target.s)
                 ELSE /\ SansHistory(state') = state
                      /\ FieldChanges(stateChangedProps') = stateChangedProps]_vars

----------------------------------------------------------------------------
(* The loaded snapshot *)

\* C37: the prevState of an interaction is the snapshot loaded from the store
\* at its start (or the empty record when nothing is read), and no later step
\* (first round, tool dispatch, post-tool round, history append) modifies it;
\* its conversation_history never gains the entries of this interaction.
C37_PrevStateIsLoadedSnapshot ==
    [][/\ (pc = "start" /\ pc' # "failed") => prevState' \in {store, EmptyObj}
       /\ (pc # "start" /\ pc' # "failed") =>
             /\ prevState' = prevState
             /\ HistoryOf(prevState') = HistoryOf(prevState)]_vars

----------------------------------------------------------------------------
(* What a write leaves of the stored record *)

\* C38: a write to the store keeps every key of the stored record: a stored
\* conversation_history, system_last_message or field outside the state model
\* of the turn is still in the store after the write.
C38_WritePreservesStoredKeys ==
    [][\A key \in SeqToSet(Keys(store)) : HasOwn(store', key)]_vars

----------------------------------------------------------------------------
(* Termination *)

Finished == pc \in {"done", "failed"}
\* The tools the executor's loop has run, at the least: one in every iteration
\* but the last
ExecutorToolRuns == IF agentIterations > 0 THEN agentIterations - 1 ELSE 0
ExecutorPath == IsAgent /\ ~HasStateModel /\ useAgent

\* C39 (as stated): every interaction reaches the output or a fatal error, the
\* tools invoked are at most the requests of the first answer, and the model is
\* called at most three times.
C39_TerminatesWithinStatedBounds ==
    /\ <>Finished
    /\ [](/\ ModelCalls + agentIterations <= 3
          /\ pc # "failed" => ReturnedCalls + ExecutorToolRuns <= Len(toolsRequested))

\* C39 (amended): every interaction reaches the output or a fatal error; with
\* a state model, and in the handler, the tools invoked are at most the
\* requests of the first answer and the model is called at most three times;
\* without a state model and with tools the orchestrator makes one call, of
\* the agent executor, whose loop is bounded by maxIterations.
C39_TerminatesWithinBounds ==
    /\ <>Finished
    /\ [](IF ExecutorPath
          THEN /\ Cardinality({ i \in DOMAIN trace : trace[i] \in {"llm", "agentloop"} }) <= 1
               /\ ReturnedCalls = 0
               /\ agentIterations <= maxIterations
          ELSE /\ agentIterations = 0
               /\ ModelCalls <= 3
               /\ pc # "failed" => ReturnedCalls <= Len(toolsRequested))

\* a double-prompt interaction that ended after three model calls and as many
\* tool invocations as the first answer requested
C39_Witness ==
    /\ Completed /\ DoublePrompt
    /\ ModelCalls = 3
    /\ Len(toolsRequested) = MaxReq /\ ReturnedCalls = Len(toolsRequested)

====
